---- MODULE Spec2Model ----
(***************************************************************************)
(* Practical Parallel Key Switch (ppks): ElGamal on an elliptic curve,     *)
(* additive key and share aggregation, share replacement and the           *)
(* Sigma-protocol proof of a share.                                        *)
(*                                                                         *)
(* The curve backend (sm2.P256Sm2) is instantiated with a curve of the     *)
(* same shape (prime field, a = -3, cofactor 1, prime order n < p) that is *)
(* small enough to enumerate: y^2 = x^3 - 3x + 1 over F_7, of order 5.     *)
(* Coordinates and scalars are integers; a big.Int that Neg has made       *)
(* negative stays negative until the code reduces it.                      *)
(***************************************************************************)
EXTENDS Integers, Sequences, FiniteSets, TLC

(***************************************************************************)
(* Curve parameters: curve.Params().P, .N, .Gx, .Gy and the coefficients.  *)
(***************************************************************************)
ParamsP == 7
ParamsN == 5
ParamsA == 4
ParamsB == 1
ParamsGx == 4
ParamsGy == 2

\* The point at infinity in the affine convention of crypto/elliptic.
Infinity == [X |-> 0, Y |-> 0]

\* The generator B of the code: B.X = Gx, B.Y = Gy.
BasePoint == [X |-> ParamsGx, Y |-> ParamsGy]

OnCurve(x, y) ==
    (y * y) % ParamsP = (x * x * x + ParamsA * x + ParamsB) % ParamsP

\* Every value a CurvePoint of the group can hold, in canonical form.
Points ==
    {Infinity} \cup
    {[X |-> x, Y |-> y] : <<x, y>> \in
        {c \in (0 .. ParamsP - 1) \X (0 .. ParamsP - 1) : OnCurve(c[1], c[2])}}

InvModP(x) == CHOOSE i \in 1 .. ParamsP - 1 : (i * x) % ParamsP = 1

\* Affine addition of two canonical points.
AffineAdd(p1, p2) ==
    IF p1 = Infinity THEN p2
    ELSE IF p2 = Infinity THEN p1
    ELSE IF p1.X = p2.X /\ (p1.Y + p2.Y) % ParamsP = 0 THEN Infinity
    ELSE LET lam == IF p1.X = p2.X
                    THEN ((3 * p1.X * p1.X + ParamsA) * InvModP((2 * p1.Y) % ParamsP)) % ParamsP
                    ELSE ((p2.Y - p1.Y) * InvModP((p2.X - p1.X) % ParamsP)) % ParamsP
             x3 == (lam * lam - p1.X - p2.X) % ParamsP
             y3 == (lam * (p1.X - x3) - p1.Y) % ParamsP
         IN [X |-> x3, Y |-> y3]

\* The place of a canonical point in the addition table.
PointCode(pt) == pt.X * ParamsP + pt.Y + 1

\* The canonical point with a given code.
CodePoint(c) == [X |-> (c - 1) \div ParamsP, Y |-> (c - 1) % ParamsP]

\* AffineAdd for every pair of points, evaluated once and indexed by the
\* points' codes (@@ makes TLC build the whole function rather than keep
\* the rule).
AddTable ==
    [c1 \in 1 .. ParamsP * ParamsP |->
        [c2 \in 1 .. ParamsP * ParamsP |->
            LET p1 == CodePoint(c1)
                p2 == CodePoint(c2)
            IN IF p1 \in Points /\ p2 \in Points THEN AffineAdd(p1, p2) ELSE Infinity
        ] @@ <<>>
    ] @@ <<>>

\* The sum of two canonical points of the group.
GroupAdd(p1, p2) == AddTable[PointCode(p1)][PointCode(p2)]

\* The backend converts every coordinate it is given into a field element
\* (reduction mod p), so a negative y is read as p - |y|.
FromBig(pt) == [X |-> pt.X % ParamsP, Y |-> pt.Y % ParamsP]

\* curve.Add(x1, y1, x2, y2)
CurveAdd(p1, p2) == GroupAdd(FromBig(p1), FromBig(p2))

\* big.Int.Bytes(): the minimal big-endian bytes of the absolute value.
RECURSIVE Bytes(_)
Bytes(k) ==
    LET a == IF k < 0 THEN -k ELSE k
    IN IF a = 0 THEN <<>> ELSE Append(Bytes(a \div 256), a % 256)

\* big.Int.SetBytes()
RECURSIVE SetBytes(_)
SetBytes(bs) ==
    IF bs = <<>> THEN 0
    ELSE 256 * SetBytes(SubSeq(bs, 1, Len(bs) - 1)) + bs[Len(bs)]

\* One step of the double-and-add loop: double, then add when the bit is set.
MultBit(acc, pt, bit) ==
    LET dbl == AffineAdd(acc, acc)
    IN IF bit = 1 THEN AffineAdd(dbl, pt) ELSE dbl

\* The steps of one byte from bit i down to bit 0.
RECURSIVE MultBits(_, _, _, _)
MultBits(acc, pt, byte, i) ==
    IF i < 0 THEN acc
    ELSE MultBits(MultBit(acc, pt, (byte \div (2 ^ i)) % 2), pt, byte, i - 1)

\* The eight steps of one byte, most significant bit first.
MultByte(acc, pt, byte) == MultBits(acc, pt, byte, 7)

\* MultByte for every accumulator, point and byte, evaluated once (codes
\* that are not points of the group have no entries).
MultByteTable ==
    [c1 \in 1 .. ParamsP * ParamsP |->
        IF CodePoint(c1) \in Points
        THEN [c2 \in 1 .. ParamsP * ParamsP |->
                 IF CodePoint(c2) \in Points
                 THEN [b \in 1 .. 256 |->
                          MultByte(CodePoint(c1), CodePoint(c2), b - 1)] @@ <<>>
                 ELSE <<>>
             ] @@ <<>>
        ELSE <<>>
    ] @@ <<>>

\* The double-and-add loop over the bytes of the scalar.
RECURSIVE MultBytes(_, _, _)
MultBytes(acc, pt, bs) ==
    IF bs = <<>> THEN acc
    ELSE MultBytes(MultByteTable[PointCode(acc)][PointCode(pt)][Head(bs) + 1],
                   pt, Tail(bs))

\* curve.ScalarMult(x, y, k): k is the byte string of the scalar.
ScalarMult(pt, k) == MultBytes(Infinity, FromBig(pt), k)

\* curve.ScalarBaseMult(k)
ScalarBaseMult(k) == ScalarMult(BasePoint, k)

(***************************************************************************)
(* Keys.  An sm2.PrivateKey is the record [D, X, Y] (the embedded public   *)
(* key's coordinates); an sm2.PublicKey and a CurvePoint are [X, Y]; a     *)
(* CipherText is [K, C].                                                   *)
(***************************************************************************)

\* GetPubKey(priv): &priv.PublicKey
GetPubKey(priv) == [X |-> priv.X, Y |-> priv.Y]

\* The key GenPrivKey returns when the generator draws the scalar d.
GenPrivKey(d) ==
    LET pub == ScalarBaseMult(Bytes(d))
    IN [D |-> d, X |-> pub.X, Y |-> pub.Y]

\* The sampler reducing modulo n in place of n-1.
randFieldElementModN(t) == (t % ParamsN) + 1

\* The scalar sampler on the integer t read from the random source.
randFieldElement(t) == (t % (ParamsN - 1)) + 1

\* The loop of CollPrivKey over privs[i .. len-1] with accumulator collPriv.
RECURSIVE CollPrivLoop(_, _, _)
CollPrivLoop(privs, i, collPriv) ==
    IF i > Len(privs) THEN collPriv
    ELSE LET sum == collPriv + privs[i].D
             red == IF sum >= ParamsN THEN sum % ParamsN ELSE sum
         IN CollPrivLoop(privs, i + 1, red)

CollPrivKey(privs) ==
    LET d == CollPrivLoop(privs, 1, 0)
        pub == ScalarBaseMult(Bytes(d))
    IN [D |-> d, X |-> pub.X, Y |-> pub.Y]

\* The loop of CollPubKey over pubs[i .. len-1] with accumulator collPubKey.
RECURSIVE CollPubLoop(_, _, _)
CollPubLoop(pubs, i, collPubKey) ==
    IF i > Len(pubs) THEN collPubKey
    ELSE CollPubLoop(pubs, i + 1, CurveAdd(collPubKey, pubs[i]))

\* CollPubKey whose loop never runs.
CollPubKeyFirst(pubs) == pubs[1]

\* CollPubKey with the loop started at the first key, which is already in
\* the accumulator.
CollPubKeyTwice(pubs) == CollPubLoop(pubs, 1, pubs[1])

CollPubKey(pubs) == CollPubLoop(pubs, 2, pubs[1])

(***************************************************************************)
(* Point ElGamal.  r and ri are the nonces randFieldElement returned.      *)
(***************************************************************************)
PointEncrypt(pub, D, r) ==
    LET K == ScalarBaseMult(Bytes(r))
        rK == ScalarMult(pub, Bytes(r))
    IN [K |-> K, C |-> CurveAdd(rK, D)]

\* PointDecrypt without the negation of rK's y.
PointDecryptNoNeg(ct, priv) ==
    LET rK == ScalarMult(ct.K, Bytes(priv.D))
    IN CurveAdd(ct.C, rK)

\* PointDecrypt of the proof-enabled file: the negated y is reduced mod p.
PointDecrypt(ct, priv) ==
    LET rK == ScalarMult(ct.K, Bytes(priv.D))
        negrKy == (-rK.Y) % ParamsP
    IN CurveAdd(ct.C, [X |-> rK.X, Y |-> negrKy])

\* PointDecrypt of ppks.go: the negated y is handed to Add as it is.
PointDecryptPlain(ct, priv) ==
    LET rK == ScalarMult(ct.K, Bytes(priv.D))
        negrKy == -rK.Y
    IN CurveAdd(ct.C, [X |-> rK.X, Y |-> negrKy])

\* ShareCal with ri applied to the generator in place of the target key.
ShareCalBaseKey(targetPubKey, rB, priv, ri) ==
    LET K == ScalarBaseMult(Bytes(ri))
        rBki == ScalarMult(rB, Bytes(priv.D))
        rBkiy == (-rBki.Y) % ParamsP
        riU == ScalarBaseMult(Bytes(ri))
    IN [share |-> [K |-> K, C |-> CurveAdd([X |-> rBki.X, Y |-> rBkiy], riU)],
        ri |-> ri]

\* ShareCal returning another scalar than the nonce it used.
ShareCalOtherNonce(targetPubKey, rB, priv, ri) ==
    LET K == ScalarBaseMult(Bytes(ri))
        rBki == ScalarMult(rB, Bytes(priv.D))
        rBkiy == (-rBki.Y) % ParamsP
        riU == ScalarMult(targetPubKey, Bytes(ri))
    IN [share |-> [K |-> K, C |-> CurveAdd([X |-> rBki.X, Y |-> rBkiy], riU)],
        ri |-> (ri % (ParamsN - 1)) + 1]

\* ShareCal of the proof-enabled file; returns the share and ri.
ShareCal(targetPubKey, rB, priv, ri) ==
    LET K == ScalarBaseMult(Bytes(ri))
        rBki == ScalarMult(rB, Bytes(priv.D))
        rBkiy == (-rBki.Y) % ParamsP
        riU == ScalarMult(targetPubKey, Bytes(ri))
    IN [share |-> [K |-> K, C |-> CurveAdd([X |-> rBki.X, Y |-> rBkiy], riU)],
        ri |-> ri]

\* ShareCal of ppks.go; returns the share only.
ShareCalPlain(targetPubKey, rB, priv, ri) ==
    LET K == ScalarBaseMult(Bytes(ri))
        rBki == ScalarMult(rB, Bytes(priv.D))
        rBkiy == -rBki.Y
        riU == ScalarMult(targetPubKey, Bytes(ri))
    IN [K |-> K, C |-> CurveAdd([X |-> rBki.X, Y |-> rBkiy], riU)]

\* The aggregation loop of ShareReplace over shares[i .. lens-1].
RECURSIVE ShareSumLoop(_, _, _)
ShareSumLoop(shares, i, sigma) ==
    IF i > Len(shares) THEN sigma
    ELSE ShareSumLoop(shares, i + 1,
            [K |-> CurveAdd(sigma.K, shares[i].K),
             C |-> CurveAdd(sigma.C, shares[i].C)])

\* ShareReplace that returns the aggregate without adding rct.C.
ShareReplaceNoCt(shares, rct) == ShareSumLoop(shares, 2, shares[1])

\* ShareReplace with the loop started one element late.
ShareReplaceSkip(shares, rct) ==
    LET sigma == ShareSumLoop(shares, 3, shares[1])
    IN [K |-> sigma.K, C |-> CurveAdd(sigma.C, rct.C)]

ShareReplace(shares, rct) ==
    LET sigma == ShareSumLoop(shares, 2, shares[1])
    IN [K |-> sigma.K, C |-> CurveAdd(sigma.C, rct.C)]

(***************************************************************************)
(* The Sigma-protocol proof.  The digest function is the parameter h, a    *)
(* function from byte strings to the integer read from the first 32 bytes  *)
(* of the digest; v1 and v2 are the nonces randFieldElement returned.      *)
(***************************************************************************)

\* The bytes of a point written as its x alone.
PointBytesXOnly(pt) == Bytes(pt.X)

\* The bytes written to the hash for one point: x then y.
PointBytes(pt) == Bytes(pt.X) \o Bytes(pt.Y)

\* The hash input without the two writes of A.
TranscriptNoA(B, Y1, Y2, A1, A2, A, T1, T2, T3) ==
    PointBytes(B) \o PointBytes(Y1) \o PointBytes(Y2) \o PointBytes(A1) \o
    PointBytes(A2) \o PointBytes(T1) \o PointBytes(T2) \o PointBytes(T3)

\* The bytes written to the hash, in the order of the h.Write calls.
Transcript(B, Y1, Y2, A1, A2, A, T1, T2, T3) ==
    PointBytes(B) \o PointBytes(Y1) \o PointBytes(Y2) \o PointBytes(A1) \o
    PointBytes(A2) \o PointBytes(A) \o PointBytes(T1) \o PointBytes(T2) \o
    PointBytes(T3)

\* The bytes ProofGen hashes: the commitments T1 = v1*B, T2 = v2*B,
\* T3 = v1*A1 + v2*A2 after the six public points.
GenTranscript(v1, v2, B, Y1, Y2, A1, A2, A) ==
    LET T1 == ScalarMult(B, Bytes(v1))
        T2 == ScalarMult(B, Bytes(v2))
        T3 == CurveAdd(ScalarMult(A1, Bytes(v1)), ScalarMult(A2, Bytes(v2)))
    IN Transcript(B, Y1, Y2, A1, A2, A, T1, T2, T3)

\* The responses with c*y added to v in place of subtracted.
ResponsePlus(c, y1, y2, v1, v2) ==
    [c |-> c,
     r1 |-> (v1 + ((c * y1) % ParamsN)) % ParamsN,
     r2 |-> (v2 + ((c * y2) % ParamsN)) % ParamsN]

\* The responses without the final reduction mod n.
ResponseNoMod(c, y1, y2, v1, v2) ==
    [c |-> c,
     r1 |-> v1 - ((c * y1) % ParamsN),
     r2 |-> v2 - ((c * y2) % ParamsN)]

\* The responses r1 = v1 - c*y1, r2 = v2 - c*y2, each reduced mod n.
Response(c, y1, y2, v1, v2) ==
    [c |-> c,
     r1 |-> (v1 - ((c * y1) % ParamsN)) % ParamsN,
     r2 |-> (v2 - ((c * y2) % ParamsN)) % ParamsN]

ProofGen(h, y1, y2, v1, v2, B, Y1, Y2, A1, A2, A) ==
    Response(h[GenTranscript(v1, v2, B, Y1, Y2, A1, A2, A)], y1, y2, v1, v2)

\* The bytes of ProofGenNoB with the generator written y first.
GenTranscriptNoBSwapped(v1, v2, Y1, Y2, A1, A2, A) ==
    LET T1 == ScalarBaseMult(Bytes(v1))
        T2 == ScalarBaseMult(Bytes(v2))
        T3 == CurveAdd(ScalarMult(A1, Bytes(v1)), ScalarMult(A2, Bytes(v2)))
    IN Transcript([X |-> ParamsGy, Y |-> ParamsGx], Y1, Y2, A1, A2, A, T1, T2, T3)

\* The bytes ProofGenNoB hashes: ScalarBaseMult for T1 and T2, and the
\* generator's coordinates in place of B.
GenTranscriptNoB(v1, v2, Y1, Y2, A1, A2, A) ==
    LET T1 == ScalarBaseMult(Bytes(v1))
        T2 == ScalarBaseMult(Bytes(v2))
        T3 == CurveAdd(ScalarMult(A1, Bytes(v1)), ScalarMult(A2, Bytes(v2)))
    IN Transcript([X |-> ParamsGx, Y |-> ParamsGy], Y1, Y2, A1, A2, A, T1, T2, T3)

ProofGenNoB(h, y1, y2, v1, v2, Y1, Y2, A1, A2, A) ==
    Response(h[GenTranscriptNoB(v1, v2, Y1, Y2, A1, A2, A)], y1, y2, v1, v2)

\* The bytes ProofVrf hashes: the rebuilt commitments T1' = r1*B + c*Y1,
\* T2' = r2*B + c*Y2, T3' = r1*A1 + r2*A2 + c*A.
VrfTranscript(c, r1, r2, B, Y1, Y2, A1, A2, A) ==
    LET T1 == CurveAdd(ScalarMult(B, Bytes(r1)), ScalarMult(Y1, Bytes(c)))
        T2 == CurveAdd(ScalarMult(B, Bytes(r2)), ScalarMult(Y2, Bytes(c)))
        T3 == CurveAdd(CurveAdd(ScalarMult(A1, Bytes(r1)), ScalarMult(A2, Bytes(r2))),
                       ScalarMult(A, Bytes(c)))
    IN Transcript(B, Y1, Y2, A1, A2, A, T1, T2, T3)

\* ProofVrf accepting c_new >= c.
ProofVrfAtMost(h, c, r1, r2, B, Y1, Y2, A1, A2, A) ==
    c <= h[VrfTranscript(c, r1, r2, B, Y1, Y2, A1, A2, A)]

\* ProofVrf comparing c and c_new after reduction mod n.
ProofVrfModN(h, c, r1, r2, B, Y1, Y2, A1, A2, A) ==
    c % ParamsN = h[VrfTranscript(c, r1, r2, B, Y1, Y2, A1, A2, A)] % ParamsN

\* c.Cmp(c_new) = 0
ProofVrf(h, c, r1, r2, B, Y1, Y2, A1, A2, A) ==
    c = h[VrfTranscript(c, r1, r2, B, Y1, Y2, A1, A2, A)]

VrfTranscriptNoB(c, r1, r2, Y1, Y2, A1, A2, A) ==
    LET T1 == CurveAdd(ScalarBaseMult(Bytes(r1)), ScalarMult(Y1, Bytes(c)))
        T2 == CurveAdd(ScalarBaseMult(Bytes(r2)), ScalarMult(Y2, Bytes(c)))
        T3 == CurveAdd(CurveAdd(ScalarMult(A1, Bytes(r1)), ScalarMult(A2, Bytes(r2))),
                       ScalarMult(A, Bytes(c)))
    IN Transcript([X |-> ParamsGx, Y |-> ParamsGy], Y1, Y2, A1, A2, A, T1, T2, T3)

\* ProofVrfNoB accepting c_new >= c.
ProofVrfNoBAtMost(h, c, r1, r2, Y1, Y2, A1, A2, A) ==
    c <= h[VrfTranscriptNoB(c, r1, r2, Y1, Y2, A1, A2, A)]

\* c.Cmp(c_new) = 0
ProofVrfNoB(h, c, r1, r2, Y1, Y2, A1, A2, A) ==
    c = h[VrfTranscriptNoB(c, r1, r2, Y1, Y2, A1, A2, A)]

\* A2 = -rB: a copy of rB with its y negated and reduced mod p.
NegRB(rB) == [X |-> rB.X, Y |-> (-rB.Y) % ParamsP]

\* The bytes ShareProofGen has ProofGen hash.
ShareGenTranscript(ri, priv, share, targetPubKey, rB, v1, v2) ==
    GenTranscript(v1, v2, BasePoint, share.K, GetPubKey(priv), targetPubKey,
                  NegRB(rB), share.C)

ShareProofGen(h, ri, priv, share, targetPubKey, rB, v1, v2) ==
    ProofGen(h, ri, priv.D, v1, v2, BasePoint, share.K, GetPubKey(priv),
             targetPubKey, NegRB(rB), share.C)

ShareGenTranscriptNoB(ri, priv, share, targetPubKey, rB, v1, v2) ==
    GenTranscriptNoB(v1, v2, share.K, GetPubKey(priv), targetPubKey,
                     NegRB(rB), share.C)

ShareProofGenNoB(h, ri, priv, share, targetPubKey, rB, v1, v2) ==
    ProofGenNoB(h, ri, priv.D, v1, v2, share.K, GetPubKey(priv),
                targetPubKey, NegRB(rB), share.C)

\* The bytes ShareProofVry has ProofVrf hash.
ShareVryTranscript(c, r1, r2, share, nodePubKey, targetPubKey, rB) ==
    VrfTranscript(c, r1, r2, BasePoint, share.K, nodePubKey, targetPubKey,
                  NegRB(rB), share.C)

ShareProofVry(h, c, r1, r2, share, nodePubKey, targetPubKey, rB) ==
    ProofVrf(h, c, r1, r2, BasePoint, share.K, nodePubKey, targetPubKey,
             NegRB(rB), share.C)

ShareVryTranscriptNoB(c, r1, r2, share, nodePubKey, targetPubKey, rB) ==
    VrfTranscriptNoB(c, r1, r2, share.K, nodePubKey, targetPubKey,
                     NegRB(rB), share.C)

ShareProofVryNoB(h, c, r1, r2, share, nodePubKey, targetPubKey, rB) ==
    ProofVrfNoB(h, c, r1, r2, share.K, nodePubKey, targetPubKey,
                NegRB(rB), share.C)

(***************************************************************************)
(* Bounds of the model.                                                    *)
(***************************************************************************)
\* Largest committee of the workflow (lens of TestWorkFlow).
MaxServers == 2
\* Largest integer the workflow reads from the random source.
MaxFlowRandom == 2
\* Largest integer the workflow's proofs read from the random source.
MaxFlowProofRandom == 0
\* Largest digest value in the workflow.
MaxFlowDigest == 4
\* Largest integer the encryption and aggregation scenarios read from the
\* random source.
MaxRandom == 5
\* Longest key list handed to CollPrivKey and CollPubKey.
MaxKeys == 3
\* Longest share list handed to ShareReplace on its own.
MaxShares == 3
\* Largest integer the proof scenarios read from the random source.
MaxProofRandom == 1
\* Largest digest value in the proof scenarios.
MaxDigest == 5
\* Largest value a forged proof scalar takes.
MaxScalar == 5

\* The private keys 1 .. n-1.
Scalars == 1 .. ParamsN - 1

\* The scalars randFieldElement returns when the random source holds an
\* integer of 0 .. max.
Nonces(max) == {randFieldElement(t) : t \in 0 .. max}

\* The value of a variable a scenario does not use or has not yet set.
Nil == "nil"

VARIABLES
    pc,        \* position in the scenario
    variant,   \* the library file in use: "proof" (proof-enabled) or "plain" (ppks.go)
    pks,       \* the committee's private keys
    collPk,    \* the aggregate public key CollPubKey returned
    collSk,    \* the aggregate private key CollPrivKey returned
    pointD,    \* the plaintext point D
    cipher,    \* the ciphertext PointEncrypt returned
    q,         \* the requester's (or the decrypting) private key
    shareVec,  \* the shares the client holds, in committee order
    ris,       \* the nonce ShareCal returned with each share
    flags,     \* the result of verifying each share's proof
    tampered,  \* index of the share a faulty server altered, 0 if none
    sameInput, \* the verifier of the tampered share hashed the bytes its prover hashed
    omitted,   \* index of the share left out of the list handed to ShareReplace, 0 if none
    collided,  \* a byte string that had not been hashed received the very
               \* digest the verifier compares with
    tct,       \* the ciphertext ShareReplace returned
    plain,     \* the point PointDecrypt returned
    reordered, \* the share list in another order and what ShareReplace
               \* returned for it
    kind,      \* the proof functions under test
    stmt,      \* the public values of the proof
    secret,    \* the prover's secret values
    pai,       \* the proof (c, r1, r2)
    sm3,       \* the digests the hash has returned to the prover
    vry,       \* what the verifier was called with and what it returned
    ret        \* what a library call returned, with the inputs it was given

switchVars == <<variant, pks, collPk, collSk, pointD, cipher, q, shareVec, ris,
                flags, tampered, sameInput, omitted, tct, plain, reordered>>

proofVars == <<kind, stmt, secret, pai, sm3, vry, ret>>

vars == <<pc, switchVars, collided, proofVars>>

\* The public keys of a list of private keys (Pks[i] = priv.PublicKey).
PubKeys(privs) == [i \in 1 .. Len(privs) |-> GetPubKey(privs[i])]

\* GenPoint(): the public key of a fresh private key, as a CurvePoint.
GenPoint(d) == GetPubKey(GenPrivKey(d))

\* The digest function after the prover hashed gt (digest c) and the
\* verifier hashed vt (digest cnew when vt is a new byte string).
Sm3(gt, c, vt, cnew) == IF vt = gt THEN (gt :> c) ELSE (gt :> c) @@ (vt :> cnew)

(***************************************************************************)
(* TestWorkFlow: the reference choreography.  variant "proof" is the test  *)
(* of the proof-enabled file, variant "plain" the test of ppks.go.  One    *)
(* server may be faulty and publish share.C + B in place of share.C.       *)
(***************************************************************************)
Init ==
    /\ pc = "start"
    /\ variant \in {"proof", "plain"}
    /\ pks = <<>>
    /\ collPk = Nil
    /\ collSk = Nil
    /\ pointD = Nil
    /\ cipher = Nil
    /\ q = Nil
    /\ shareVec = <<>>
    /\ ris = <<>>
    /\ flags = <<>>
    /\ tampered = 0
    /\ sameInput = FALSE
    /\ omitted = 0
    /\ collided = FALSE
    /\ tct = Nil
    /\ plain = Nil
    /\ reordered = Nil
    /\ kind = Nil
    /\ stmt = Nil
    /\ secret = Nil
    /\ pai = Nil
    /\ sm3 = Nil
    /\ vry = Nil
    /\ ret = Nil

\* The key generation loop and CollPubKey(Pks).
GenKeys ==
    /\ pc = "start"
    /\ \E m \in 1 .. MaxServers : \E ds \in [1 .. m -> Nonces(MaxFlowRandom)] :
          LET keys == [i \in 1 .. m |-> GenPrivKey(ds[i])]
          IN /\ pks' = keys
             /\ collPk' = CollPubKey(PubKeys(keys))
    /\ pc' = "keys"
    /\ UNCHANGED <<variant, collSk, pointD, cipher, q, shareVec, ris, flags,
                   tampered, sameInput, omitted,
                   collided, tct, plain, reordered, proofVars>>

\* D := GenPoint(); ct := PointEncrypt(collPk, D)
Encrypt ==
    /\ pc = "keys"
    /\ \E d \in Nonces(MaxFlowRandom), r \in Nonces(MaxFlowRandom) :
          /\ pointD' = GenPoint(d)
          /\ cipher' = PointEncrypt(collPk, GenPoint(d), r)
    /\ pc' = "encrypted"
    /\ UNCHANGED <<variant, pks, collPk, collSk, q, shareVec, ris, flags,
                   tampered, sameInput, omitted,
                   collided, tct, plain, reordered, proofVars>>

\* q := GenPrivKey()
GenRequester ==
    /\ pc = "encrypted"
    /\ \E d \in Nonces(MaxFlowRandom) : q' = GenPrivKey(d)
    /\ pc' = "sharing"
    /\ UNCHANGED <<variant, pks, collPk, collSk, pointD, cipher, shareVec, ris,
                   flags, tampered, sameInput, omitted,
                   collided, tct, plain, reordered, proofVars>>

\* What a faulty server publishes in place of share.
TamperShare(share) == [K |-> share.K, C |-> CurveAdd(share.C, BasePoint)]

\* The bytes the prover of kind k hashes.
ProverBytes(k, st, sec, v1, v2) ==
    IF k = "share"
    THEN ShareGenTranscript(sec.ri, sec.priv, st.share, st.Q, st.rB, v1, v2)
    ELSE IF k = "shareNoB"
    THEN ShareGenTranscriptNoB(sec.ri, sec.priv, st.share, st.Q, st.rB, v1, v2)
    ELSE GenTranscript(v1, v2, st.B, st.Y1, st.Y2, st.A1, st.A2, st.A)

\* The proof the prover of kind k returns.
ProverCall(k, h, st, sec, v1, v2) ==
    IF k = "share"
    THEN ShareProofGen(h, sec.ri, sec.priv, st.share, st.Q, st.rB, v1, v2)
    ELSE IF k = "shareNoB"
    THEN ShareProofGenNoB(h, sec.ri, sec.priv, st.share, st.Q, st.rB, v1, v2)
    ELSE ProofGen(h, sec.y1, sec.y2, v1, v2, st.B, st.Y1, st.Y2, st.A1, st.A2, st.A)

\* The bytes the verifier of kind k hashes.
VerifierBytes(k, proof, st) ==
    IF k = "share"
    THEN ShareVryTranscript(proof.c, proof.r1, proof.r2, st.share, st.nodePk,
                            st.Q, st.rB)
    ELSE IF k = "shareNoB"
    THEN ShareVryTranscriptNoB(proof.c, proof.r1, proof.r2, st.share, st.nodePk,
                               st.Q, st.rB)
    ELSE VrfTranscript(proof.c, proof.r1, proof.r2, st.B, st.Y1, st.Y2, st.A1,
                       st.A2, st.A)

\* The flag the verifier of kind k returns.
VerifierCall(k, h, proof, st) ==
    IF k = "share"
    THEN ShareProofVry(h, proof.c, proof.r1, proof.r2, st.share, st.nodePk,
                       st.Q, st.rB)
    ELSE IF k = "shareNoB"
    THEN ShareProofVryNoB(h, proof.c, proof.r1, proof.r2, st.share, st.nodePk,
                          st.Q, st.rB)
    ELSE ProofVrf(h, proof.c, proof.r1, proof.r2, st.B, st.Y1, st.Y2, st.A1,
                  st.A2, st.A)

\* One iteration of the share loop of the proof-enabled test: ShareCal,
\* the prover's call (the hash returns c for the bytes gt) and the
\* verifier's call on the share the client received (the hash returns cnew
\* for the bytes vt when they are new).  The test calls the NoB pair; the
\* pair that takes B is called in its place in the other runs.  A false
\* flag is printed and the loop goes on.
ShareIterProof ==
    /\ pc = "sharing"
    /\ variant = "proof"
    /\ Len(shareVec) < Len(pks)
    /\ \E priv \in {pks[Len(shareVec) + 1]}, Q \in {GetPubKey(q)},
          ri \in Nonces(MaxFlowRandom) :
       \E sc \in {ShareCal(Q, cipher.K, priv, ri)} :
       \E st \in {[share |-> sc.share, nodePk |-> GetPubKey(priv), Q |-> Q,
                    rB |-> cipher.K]} :
       \E k \in {"share", "shareNoB"},
          v1 \in Nonces(MaxFlowProofRandom), v2 \in Nonces(MaxFlowProofRandom) :
       \E gt \in {ProverBytes(k, st, [ri |-> sc.ri, priv |-> priv], v1, v2)} :
       \E c \in 0 .. MaxFlowDigest :
       \E proof \in {ProverCall(k, (gt :> c), st, [ri |-> sc.ri, priv |-> priv],
                                v1, v2)} :
       \E bad \in {b \in BOOLEAN : b => tampered = 0} :
       \E got \in {IF bad THEN [st EXCEPT !.share = TamperShare(sc.share)] ELSE st} :
       \E vt \in {VerifierBytes(k, proof, got)} :
       \E cnew \in IF vt = gt THEN {c} ELSE 0 .. MaxFlowDigest :
          /\ shareVec' = Append(shareVec, got.share)
          /\ ris' = Append(ris, sc.ri)
          /\ flags' = Append(flags, VerifierCall(k, Sm3(gt, c, vt, cnew), proof, got))
          /\ tampered' = IF bad THEN Len(shareVec) + 1 ELSE tampered
          /\ sameInput' = IF bad THEN vt = gt ELSE sameInput
          /\ collided' = (collided \/ (vt # gt /\ cnew = c))
    /\ UNCHANGED <<pc, variant, pks, collPk, collSk, pointD, cipher, q, omitted,
                   tct, plain, reordered, proofVars>>

\* One iteration of the share loop of the test of ppks.go: ShareCal only.
ShareIterPlain ==
    /\ pc = "sharing"
    /\ variant = "plain"
    /\ Len(shareVec) < Len(pks)
    /\ \E ri \in Nonces(MaxFlowRandom), bad \in {b \in BOOLEAN : b => tampered = 0} :
          \E honest \in {ShareCalPlain(GetPubKey(q), cipher.K,
                                       pks[Len(shareVec) + 1], ri)} :
             /\ shareVec' = Append(shareVec,
                                   IF bad THEN TamperShare(honest) ELSE honest)
             /\ tampered' = IF bad THEN Len(shareVec) + 1 ELSE tampered
    /\ UNCHANGED <<pc, variant, pks, collPk, collSk, pointD, cipher, q, ris,
                   flags, sameInput, omitted, collided, tct, plain,
                   reordered, proofVars>>

\* tct := ShareReplace(&shares, ct), whatever the flags were.
Replace ==
    /\ pc = "sharing"
    /\ Len(shareVec) = Len(pks)
    /\ tct' = ShareReplace(shareVec, cipher)
    /\ pc' = "replaced"
    /\ UNCHANGED <<variant, pks, collPk, collSk, pointD, cipher, q, shareVec,
                   ris, flags, tampered, sameInput, omitted,
                   collided, plain, reordered, proofVars>>

\* pt := PointDecrypt(tct, q)
Decrypt ==
    /\ pc = "replaced"
    /\ plain' = IF variant = "proof" THEN PointDecrypt(tct, q)
                                     ELSE PointDecryptPlain(tct, q)
    /\ pc' = "done"
    /\ UNCHANGED <<variant, pks, collPk, collSk, pointD, cipher, q, shareVec,
                   ris, flags, tampered, sameInput, omitted,
                   collided, tct, reordered, proofVars>>

Next ==
    \/ GenKeys
    \/ Encrypt
    \/ GenRequester
    \/ ShareIterProof
    \/ ShareIterPlain
    \/ Replace
    \/ Decrypt

Spec == Init /\ [][Next]_vars

(***************************************************************************)
(* TestPointDecrypt: one key pair, one point, PointEncrypt then            *)
(* PointDecrypt, with the PointDecrypt of either file.                     *)
(***************************************************************************)
InitEnc ==
    /\ pc = "enc.start"
    /\ variant \in {"proof", "plain"}
    /\ q \in {GenPrivKey(d) : d \in Nonces(MaxRandom)}
    /\ pointD \in Points
    /\ pks = <<>>
    /\ collPk = Nil
    /\ collSk = Nil
    /\ cipher = Nil
    /\ shareVec = <<>>
    /\ ris = <<>>
    /\ flags = <<>>
    /\ tampered = 0
    /\ sameInput = FALSE
    /\ omitted = 0
    /\ collided = FALSE
    /\ tct = Nil
    /\ plain = Nil
    /\ reordered = Nil
    /\ kind = Nil
    /\ stmt = Nil
    /\ secret = Nil
    /\ pai = Nil
    /\ sm3 = Nil
    /\ vry = Nil
    /\ ret = Nil

\* ct := PointEncrypt(GetPubKey(priv), D)
EncEncrypt ==
    /\ pc = "enc.start"
    /\ \E r \in Nonces(MaxRandom) : cipher' = PointEncrypt(GetPubKey(q), pointD, r)
    /\ pc' = "enc.encrypted"
    /\ UNCHANGED <<variant, pks, collPk, collSk, pointD, q, shareVec, ris, flags,
                   tampered, sameInput, omitted,
                   collided, tct, plain, reordered, proofVars>>

\* pt := PointDecrypt(ct, priv)
EncDecrypt ==
    /\ pc = "enc.encrypted"
    /\ plain' = IF variant = "proof" THEN PointDecrypt(cipher, q)
                                     ELSE PointDecryptPlain(cipher, q)
    /\ pc' = "enc.decrypted"
    /\ UNCHANGED <<variant, pks, collPk, collSk, pointD, cipher, q, shareVec,
                   ris, flags, tampered, sameInput, omitted,
                   collided, tct, reordered, proofVars>>

NextEnc ==
    \/ EncEncrypt
    \/ EncDecrypt

SpecEnc == InitEnc /\ [][NextEnc]_vars

(***************************************************************************)
(* TestCollPrivKey and TestCollPubKey: a key list, its two aggregates, and *)
(* an encryption under the aggregate public key decrypted with the         *)
(* aggregate private key.                                                  *)
(***************************************************************************)
InitKeys ==
    /\ pc = "keys.start"
    /\ variant \in {"proof", "plain"}
    /\ pks = <<>>
    /\ collPk = Nil
    /\ collSk = Nil
    /\ pointD = Nil
    /\ cipher = Nil
    /\ q = Nil
    /\ shareVec = <<>>
    /\ ris = <<>>
    /\ flags = <<>>
    /\ tampered = 0
    /\ sameInput = FALSE
    /\ omitted = 0
    /\ collided = FALSE
    /\ tct = Nil
    /\ plain = Nil
    /\ reordered = Nil
    /\ kind = Nil
    /\ stmt = Nil
    /\ secret = Nil
    /\ pai = Nil
    /\ sm3 = Nil
    /\ vry = Nil
    /\ ret = Nil

\* pks[i] = *GenPrivKey()
KeysGen ==
    /\ pc = "keys.start"
    /\ Len(pks) < MaxKeys
    /\ \E d \in Nonces(MaxRandom) : pks' = Append(pks, GenPrivKey(d))
    /\ UNCHANGED <<pc, variant, collPk, collSk, pointD, cipher, q, shareVec, ris,
                   flags, tampered, sameInput, omitted,
                   collided, tct, plain, reordered, proofVars>>

\* collPriv := CollPrivKey(pks); collPk := CollPubKey(Pks)
KeysAggregate ==
    /\ pc = "keys.start"
    /\ Len(pks) >= 1
    /\ collSk' = CollPrivKey(pks)
    /\ collPk' = CollPubKey(PubKeys(pks))
    /\ pc' = "keys.aggregated"
    /\ UNCHANGED <<variant, pks, pointD, cipher, q, shareVec, ris, flags,
                   tampered, sameInput, omitted,
                   collided, tct, plain, reordered, proofVars>>

\* ct := PointEncrypt(collPk, D)
KeysEncrypt ==
    /\ pc = "keys.aggregated"
    /\ \E d \in Points, r \in Nonces(MaxRandom) :
          /\ pointD' = d
          /\ cipher' = PointEncrypt(collPk, d, r)
    /\ pc' = "keys.encrypted"
    /\ UNCHANGED <<variant, pks, collPk, collSk, q, shareVec, ris, flags,
                   tampered, sameInput, omitted,
                   collided, tct, plain, reordered, proofVars>>

\* pt := PointDecrypt(ct, collPriv)
KeysDecrypt ==
    /\ pc = "keys.encrypted"
    /\ plain' = IF variant = "proof" THEN PointDecrypt(cipher, collSk)
                                     ELSE PointDecryptPlain(cipher, collSk)
    /\ pc' = "keys.decrypted"
    /\ UNCHANGED <<variant, pks, collPk, collSk, pointD, cipher, q, shareVec,
                   ris, flags, tampered, sameInput, omitted,
                   collided, tct, reordered, proofVars>>

NextKeys ==
    \/ KeysGen
    \/ KeysAggregate
    \/ KeysEncrypt
    \/ KeysDecrypt

SpecKeys == InitKeys /\ [][NextKeys]_vars

(***************************************************************************)
(* ShareReplace on a list of ciphertexts and on a reordering of the list.  *)
(* The function has the same text in both files.                           *)
(***************************************************************************)
\* Every value a CipherText can hold.
CipherTexts == [K : Points, C : Points]

\* The list with its elements in the order p[1], p[2], ...
Reordered(list, p) == [i \in 1 .. Len(list) |-> list[p[i]]]

InitReplace ==
    /\ pc = "rep.start"
    /\ variant = "proof"
    /\ shareVec = <<>>
    /\ cipher \in [K : {BasePoint}, C : Points]
    /\ pks = <<>>
    /\ collPk = Nil
    /\ collSk = Nil
    /\ pointD = Nil
    /\ q = Nil
    /\ ris = <<>>
    /\ flags = <<>>
    /\ tampered = 0
    /\ sameInput = FALSE
    /\ omitted = 0
    /\ collided = FALSE
    /\ tct = Nil
    /\ plain = Nil
    /\ reordered = Nil
    /\ kind = Nil
    /\ stmt = Nil
    /\ secret = Nil
    /\ pai = Nil
    /\ sm3 = Nil
    /\ vry = Nil
    /\ ret = Nil

\* shares[i] = *share
RepCollect ==
    /\ pc = "rep.start"
    /\ Len(shareVec) < MaxShares
    /\ \E share \in CipherTexts : shareVec' = Append(shareVec, share)
    /\ UNCHANGED <<pc, variant, pks, collPk, collSk, pointD, cipher, q, ris,
                   flags, tampered, sameInput, omitted,
                   collided, tct, plain, reordered, proofVars>>

\* tct := ShareReplace(&shares, ct)
RepReplace ==
    /\ pc = "rep.start"
    /\ Len(shareVec) >= 1
    /\ tct' = ShareReplace(shareVec, cipher)
    /\ pc' = "rep.replaced"
    /\ UNCHANGED <<variant, pks, collPk, collSk, pointD, cipher, q, shareVec,
                   ris, flags, tampered, sameInput, omitted,
                   collided, plain, reordered, proofVars>>

\* The same call on the list in another order.
RepReorder ==
    /\ pc = "rep.replaced"
    /\ \E p \in Permutations(1 .. Len(shareVec)) :
          reordered' = [shares |-> Reordered(shareVec, p),
                        tct |-> ShareReplace(Reordered(shareVec, p), cipher)]
    /\ pc' = "rep.reordered"
    /\ UNCHANGED <<variant, pks, collPk, collSk, pointD, cipher, q, shareVec,
                   ris, flags, tampered, sameInput, omitted,
                   collided, tct, plain, proofVars>>

NextReplace ==
    \/ RepCollect
    \/ RepReplace
    \/ RepReorder

SpecReplace == InitReplace /\ [][NextReplace]_vars

(***************************************************************************)
(* TestShareProofGen_Vrf_NoB and TestProofGen_Vrf_NoB: a proof is          *)
(* generated and verified; the verifier may be handed one public point or  *)
(* one proof scalar that differs from the prover's.  kind "share" is       *)
(* ShareProofGen/ShareProofVry, "shareNoB" is ShareProofGenNoB/            *)
(* ShareProofVryNoB, "generic" is ProofGen/ProofVrf on any B, A1, A2.      *)
(***************************************************************************)
InitProof ==
    /\ pc = "proof.start"
    /\ variant = "proof"
    /\ pks = <<>>
    /\ collPk = Nil
    /\ collSk = Nil
    /\ pointD = Nil
    /\ cipher = Nil
    /\ q = Nil
    /\ shareVec = <<>>
    /\ ris = <<>>
    /\ flags = <<>>
    /\ tampered = 0
    /\ sameInput = FALSE
    /\ omitted = 0
    /\ collided = FALSE
    /\ tct = Nil
    /\ plain = Nil
    /\ reordered = Nil
    /\ kind = Nil
    /\ stmt = Nil
    /\ secret = Nil
    /\ pai = Nil
    /\ sm3 = Nil
    /\ vry = Nil
    /\ ret = Nil

\* The points the tests obtain from fresh keys.
ProofPoints == {GenPoint(d) : d \in Nonces(MaxProofRandom)}

\* priv, Q, ct.K and the share of ShareCal(&Q, &ct.K, &priv).
ProofSetupShare ==
    /\ pc = "proof.start"
    /\ \E k \in {"share", "shareNoB"}, d \in Nonces(MaxProofRandom),
          Q \in ProofPoints, rB \in ProofPoints, ri \in Nonces(MaxProofRandom) :
       \E priv \in {GenPrivKey(d)} :
       \E sc \in {ShareCal(Q, rB, priv, ri)} :
          /\ kind' = k
          /\ stmt' = [share |-> sc.share, nodePk |-> GetPubKey(priv),
                      Q |-> Q, rB |-> rB]
          /\ secret' = [ri |-> sc.ri, priv |-> priv]
    /\ pc' = "proof.ready"
    /\ UNCHANGED <<switchVars, collided, pai, sm3, vry, ret>>

\* B, A1, A2 and Y1 = y1*B, Y2 = y2*B, A = y1*A1 + y2*A2.
ProofSetupGeneric ==
    /\ pc = "proof.start"
    /\ \E y1 \in Nonces(MaxProofRandom), y2 \in Nonces(MaxProofRandom),
          B \in ProofPoints, A1 \in ProofPoints, A2 \in ProofPoints :
          /\ kind' = "generic"
          /\ stmt' = [B |-> B,
                      Y1 |-> ScalarMult(B, Bytes(y1)),
                      Y2 |-> ScalarMult(B, Bytes(y2)),
                      A1 |-> A1, A2 |-> A2,
                      A |-> CurveAdd(ScalarMult(A1, Bytes(y1)),
                                     ScalarMult(A2, Bytes(y2)))]
          /\ secret' = [y1 |-> y1, y2 |-> y2]
    /\ pc' = "proof.ready"
    /\ UNCHANGED <<switchVars, collided, pai, sm3, vry, ret>>

\* The prover's call: v1, v2 from the sampler, c from the hash.
ProofGenerate ==
    /\ pc = "proof.ready"
    /\ \E v1 \in Nonces(MaxProofRandom), v2 \in Nonces(MaxProofRandom) :
       \E gt \in {ProverBytes(kind, stmt, secret, v1, v2)} :
       \E c \in 0 .. MaxDigest :
       \E h \in {(gt :> c)} :
          /\ sm3' = h
          /\ pai' = ProverCall(kind, h, stmt, secret, v1, v2)
    /\ pc' = "proof.made"
    /\ UNCHANGED <<switchVars, collided, kind, stmt, secret, vry, ret>>

\* The public points of a share proof that a caller can replace.
PointFields == {"share.K", "share.C", "nodePk", "Q", "rB"}

\* The statement st with the point of field f replaced by val.
ReplacePoint(st, f, val) ==
    IF f = "share.K" THEN [st EXCEPT !.share.K = val]
    ELSE IF f = "share.C" THEN [st EXCEPT !.share.C = val]
    ELSE [st EXCEPT ![f] = val]

\* The point of field f in the statement st.
PointOf(st, f) ==
    IF f = "share.K" THEN st.share.K
    ELSE IF f = "share.C" THEN st.share.C
    ELSE st[f]

\* The proof scalars a caller can replace.
ScalarFields == {"c", "r1", "r2"}

\* What the verifier's caller hands it: the prover's values ("none"), or
\* those values with one point or one scalar replaced.
Forgeries ==
    {[field |-> "none", value |-> Nil]} \cup
    {[field |-> f, value |-> val] : f \in PointFields, val \in Points} \cup
    {[field |-> f, value |-> val] : f \in ScalarFields, val \in 0 .. MaxScalar}

\* The verifier's call: the hash returns the prover's digest for the
\* prover's bytes and any digest for other bytes.
ProofVerify ==
    /\ pc = "proof.made"
    /\ \E t \in Forgeries :
          /\ t.field \in PointFields =>
                 (kind \in {"share", "shareNoB"} /\ t.value # PointOf(stmt, t.field))
          /\ t.field \in ScalarFields => t.value # pai[t.field]
          /\ \E got \in {IF t.field \in PointFields
                          THEN ReplacePoint(stmt, t.field, t.value) ELSE stmt},
                forged \in {IF t.field \in ScalarFields
                             THEN [pai EXCEPT ![t.field] = t.value] ELSE pai} :
             \E vt \in {VerifierBytes(kind, forged, got)} :
             \E cnew \in IF vt \in DOMAIN sm3 THEN {sm3[vt]} ELSE 0 .. MaxDigest :
             \E h \in {(vt :> cnew) @@ sm3} :
                /\ vry' = [field |-> t.field, value |-> t.value, bytes |-> vt,
                           flag |-> VerifierCall(kind, h, forged, got)]
                /\ collided' = (vt \notin DOMAIN sm3 /\ cnew = forged.c)
    /\ pc' = "proof.verified"
    /\ UNCHANGED <<switchVars, kind, stmt, secret, pai, sm3, ret>>

NextProof ==
    \/ ProofSetupShare
    \/ ProofSetupGeneric
    \/ ProofGenerate
    \/ ProofVerify

SpecProof == InitProof /\ [][NextProof]_vars

(***************************************************************************)
(* The workflow with the share of one committee member left out of the     *)
(* list the client hands to ShareReplace.                                  *)
(***************************************************************************)
\* The list without its j-th element.
Omit(list, j) ==
    [i \in 1 .. Len(list) - 1 |-> IF i < j THEN list[i] ELSE list[i + 1]]

\* tct := ShareReplace(&shares, ct) on the shares of all members but one.
ReplaceWithout ==
    /\ pc = "sharing"
    /\ Len(shareVec) = Len(pks)
    /\ Len(pks) >= 2
    /\ \E j \in 1 .. Len(shareVec) :
          /\ omitted' = j
          /\ tct' = ShareReplace(Omit(shareVec, j), cipher)
    /\ pc' = "replaced"
    /\ UNCHANGED <<variant, pks, collPk, collSk, pointD, cipher, q, shareVec,
                   ris, flags, tampered, sameInput, collided, plain, reordered,
                   proofVars>>

NextOmit ==
    \/ GenKeys
    \/ Encrypt
    \/ GenRequester
    \/ ShareIterProof
    \/ ShareIterPlain
    \/ ReplaceWithout
    \/ Decrypt

SpecOmit == Init /\ [][NextOmit]_vars

(***************************************************************************)
(* The library functions with everything they return: the error value,     *)
(* and a panic where the function indexes an empty slice.                  *)
(***************************************************************************)
\* Number of bytes randFieldElement asks the random source for
\* (params.BitSize/8 + 8, scaled to the curve of the model).
ReadLen == 2

\* The error of io.ReadFull when the source errs or returns too few bytes.
EntropyFailure == "EntropyFailure"

\* randFieldElement on what the random source delivers: k stays nil when
\* io.ReadFull fails.
randFieldElementCall(read) ==
    IF Len(read) < ReadLen
    THEN [k |-> Nil, err |-> EntropyFailure]
    ELSE [k |-> randFieldElement(SetBytes(read)), err |-> Nil]

\* var ct CipherText: no coordinate is set.
EmptyCipherText ==
    [K |-> [X |-> Nil, Y |-> Nil], C |-> [X |-> Nil, Y |-> Nil]]

\* PointEncrypt with its error path.
PointEncryptCall(pub, D, read) ==
    LET r == randFieldElementCall(read)
    IN IF r.err # Nil
       THEN [ct |-> EmptyCipherText, nonce |-> r.k, err |-> r.err]
       ELSE [ct |-> PointEncrypt(pub, D, r.k), nonce |-> r.k, err |-> Nil]

\* ShareCal of the proof-enabled file with its error path.
ShareCalCall(targetPubKey, rB, priv, read) ==
    LET r == randFieldElementCall(read)
    IN IF r.err # Nil
       THEN [share |-> EmptyCipherText, ri |-> r.k, nonce |-> r.k, err |-> r.err]
       ELSE [share |-> ShareCal(targetPubKey, rB, priv, r.k).share,
             ri |-> ShareCal(targetPubKey, rB, priv, r.k).ri,
             nonce |-> r.k, err |-> Nil]

\* ShareCal of ppks.go with its error path; it returns no nonce.
ShareCalPlainCall(targetPubKey, rB, priv, read) ==
    LET r == randFieldElementCall(read)
    IN IF r.err # Nil
       THEN [share |-> EmptyCipherText, ri |-> Nil, nonce |-> r.k, err |-> r.err]
       ELSE [share |-> ShareCalPlain(targetPubKey, rB, priv, r.k),
             ri |-> Nil, nonce |-> r.k, err |-> Nil]

\* The return of a failed prover with the error dropped.
NoProofSilent(err) == [c |-> Nil, r1 |-> Nil, r2 |-> Nil, err |-> Nil]

\* return nil, nil, nil, err
NoProof(err) == [c |-> Nil, r1 |-> Nil, r2 |-> Nil, err |-> err]

\* The two draws of ProofGen and ProofGenNoB, each checked before the next.
ProofDraws(read1, read2) ==
    LET d1 == randFieldElementCall(read1)
        d2 == randFieldElementCall(read2)
    IN IF d1.err # Nil THEN [v1 |-> Nil, v2 |-> Nil, err |-> d1.err]
       ELSE IF d2.err # Nil THEN [v1 |-> d1.k, v2 |-> Nil, err |-> d2.err]
       ELSE [v1 |-> d1.k, v2 |-> d2.k, err |-> Nil]

\* return c, r1, r2, nil
WithNilErr(proof) ==
    [c |-> proof.c, r1 |-> proof.r1, r2 |-> proof.r2, err |-> Nil]

\* ProofGen with its error paths.
ProofGenCall(h, y1, y2, draws, B, Y1, Y2, A1, A2, A) ==
    IF draws.err # Nil THEN NoProof(draws.err)
    ELSE WithNilErr(ProofGen(h, y1, y2, draws.v1, draws.v2, B, Y1, Y2, A1, A2, A))

\* ProofGenNoB with its error paths.
ProofGenNoBCall(h, y1, y2, draws, Y1, Y2, A1, A2, A) ==
    IF draws.err # Nil THEN NoProof(draws.err)
    ELSE WithNilErr(ProofGenNoB(h, y1, y2, draws.v1, draws.v2, Y1, Y2, A1, A2, A))

\* ShareProofGen: the error of ProofGen is passed on with nil values.
ShareProofGenCall(h, ri, priv, share, targetPubKey, rB, draws) ==
    LET res == ProofGenCall(h, ri, priv.D, draws, BasePoint, share.K,
                            GetPubKey(priv), targetPubKey, NegRB(rB), share.C)
    IN IF res.err # Nil THEN NoProof(res.err) ELSE res

\* ShareProofGenNoB: the error of ProofGenNoB is passed on with nil values.
ShareProofGenNoBCall(h, ri, priv, share, targetPubKey, rB, draws) ==
    LET res == ProofGenNoBCall(h, ri, priv.D, draws, share.K, GetPubKey(priv),
                               targetPubKey, NegRB(rB), share.C)
    IN IF res.err # Nil THEN NoProof(res.err) ELSE res

\* ProofVrf reporting a proof that does not verify as an error.
ProofVrfCallInvalid(h, c, r1, r2, B, Y1, Y2, A1, A2, A) ==
    IF ProofVrf(h, c, r1, r2, B, Y1, Y2, A1, A2, A)
    THEN [flag |-> TRUE, err |-> Nil]
    ELSE [flag |-> FALSE, err |-> "InvalidProof"]

\* ProofVrf: return true, nil or return false, nil.
ProofVrfCall(h, c, r1, r2, B, Y1, Y2, A1, A2, A) ==
    IF ProofVrf(h, c, r1, r2, B, Y1, Y2, A1, A2, A)
    THEN [flag |-> TRUE, err |-> Nil]
    ELSE [flag |-> FALSE, err |-> Nil]

\* ProofVrfNoB: return true, nil or return false, nil.
ProofVrfNoBCall(h, c, r1, r2, Y1, Y2, A1, A2, A) ==
    IF ProofVrfNoB(h, c, r1, r2, Y1, Y2, A1, A2, A)
    THEN [flag |-> TRUE, err |-> Nil]
    ELSE [flag |-> FALSE, err |-> Nil]

\* ShareProofVry: false with the error of ProofVrf, else its result.
ShareProofVryCall(h, c, r1, r2, share, nodePubKey, targetPubKey, rB) ==
    LET res == ProofVrfCall(h, c, r1, r2, BasePoint, share.K, nodePubKey,
                            targetPubKey, NegRB(rB), share.C)
    IN IF res.err # Nil THEN [flag |-> FALSE, err |-> res.err] ELSE res

\* ShareProofVryNoB: false with the error of ProofVrfNoB, else its result.
ShareProofVryNoBCall(h, c, r1, r2, share, nodePubKey, targetPubKey, rB) ==
    LET res == ProofVrfNoBCall(h, c, r1, r2, share.K, nodePubKey,
                               targetPubKey, NegRB(rB), share.C)
    IN IF res.err # Nil THEN [flag |-> FALSE, err |-> res.err] ELSE res

\* The y PointDecrypt hands to Add for -rK (proof-enabled file): Neg, Mod.
DecryptNegY(ct, priv) == (-ScalarMult(ct.K, Bytes(priv.D)).Y) % ParamsP

\* The y PointDecrypt hands to Add for -rK (ppks.go): Neg only.
DecryptNegYPlain(ct, priv) == -ScalarMult(ct.K, Bytes(priv.D)).Y

\* The y ShareCal hands to Add for -rB*ki (proof-enabled file): Neg, Mod.
ShareCalNegY(rB, priv) == (-ScalarMult(rB, Bytes(priv.D)).Y) % ParamsP

\* The y ShareCal hands to Add for -rB*ki (ppks.go): Neg only.
ShareCalNegYPlain(rB, priv) == -ScalarMult(rB, Bytes(priv.D)).Y

\* PointDecrypt of the proof-enabled file: return &D, nil.
PointDecryptCall(ct, priv) ==
    [D |-> PointDecrypt(ct, priv), negY |-> DecryptNegY(ct, priv), err |-> Nil]

\* PointDecrypt of ppks.go: return &D, nil.
PointDecryptPlainCall(ct, priv) ==
    [D |-> PointDecryptPlain(ct, priv), negY |-> DecryptNegYPlain(ct, priv),
     err |-> Nil]

\* What is left of a call that indexes element 0 of an empty slice: the
\* runtime panics and the function returns nothing.
IndexPanic == [panic |-> TRUE, out |-> Nil, err |-> Nil]

\* CollPrivKey: privs[0] is read first; the function has no error result.
CollPrivKeyCall(privs) ==
    IF Len(privs) = 0 THEN IndexPanic
    ELSE [panic |-> FALSE, out |-> CollPrivKey(privs), err |-> Nil]

\* CollPubKey: pubs[0] is read first; the function has no error result.
CollPubKeyCall(pubs) ==
    IF Len(pubs) = 0 THEN IndexPanic
    ELSE [panic |-> FALSE, out |-> CollPubKey(pubs), err |-> Nil]

\* ShareReplace: (*shares)[0] is read first; otherwise return &ct, nil.
ShareReplaceCall(shares, rct) ==
    IF Len(shares) = 0 THEN IndexPanic
    ELSE [panic |-> FALSE, out |-> ShareReplace(shares, rct), err |-> Nil]

(***************************************************************************)
(* One call of one library function on inputs of the caller's choice:      *)
(* any delivery of the random source, any key or share list (the empty     *)
(* one included), any proof values.                                        *)
(***************************************************************************)
\* Largest byte the random source delivers.
MaxByte == 3
\* Largest low byte the random source delivers to the provers.
MaxProofByte == 1
\* Longest key list handed to CollPrivKey and CollPubKey in a single call.
MaxCallKeys == 2
\* Longest share list handed to ShareReplace in a single call.
MaxCallShares == 2
\* Largest proof scalar and digest in a single verifier call.
MaxCallScalar == 2

\* The byte strings of length n over 0 .. max.
ByteStrings(n, max) == [1 .. n -> 0 .. max]

\* What io.ReadFull can leave in the buffer: ReadLen bytes, or fewer with
\* an error.
Reads == UNION {ByteStrings(n, MaxByte) : n \in 0 .. ReadLen}

\* The deliveries to the provers: nothing, or ReadLen bytes.
ProofReads == {<<>>} \cup {<<0, b>> : b \in 0 .. MaxProofByte}

\* The lists of length 0 .. max over a set.
ListsUpTo(S, max) == UNION {[1 .. n -> S] : n \in 0 .. max}

\* The private keys with D in 1 .. n-1.
PrivKeys == {GenPrivKey(d) : d \in Scalars}

callFrame == <<switchVars, collided, kind, stmt, secret, pai, sm3, vry>>

InitCalls ==
    /\ pc = "call.start"
    /\ variant = "proof"
    /\ pks = <<>>
    /\ collPk = Nil
    /\ collSk = Nil
    /\ pointD = Nil
    /\ cipher = Nil
    /\ q = Nil
    /\ shareVec = <<>>
    /\ ris = <<>>
    /\ flags = <<>>
    /\ tampered = 0
    /\ sameInput = FALSE
    /\ omitted = 0
    /\ collided = FALSE
    /\ tct = Nil
    /\ plain = Nil
    /\ reordered = Nil
    /\ kind = Nil
    /\ stmt = Nil
    /\ secret = Nil
    /\ pai = Nil
    /\ sm3 = Nil
    /\ vry = Nil
    /\ ret = Nil

\* k, err := randFieldElement(curve, random)
CallRandFieldElement ==
    /\ pc = "call.start"
    /\ \E read \in Reads :
       \E res \in {randFieldElementCall(read)} :
          ret' = [fn |-> "randFieldElement", read |-> read, k |-> res.k,
                  err |-> res.err]
    /\ pc' = "call.done"
    /\ UNCHANGED callFrame

\* ct, err := PointEncrypt(pub, D)
CallPointEncrypt ==
    /\ pc = "call.start"
    /\ \E pub \in ProofPoints, D \in Points, read \in Reads :
       \E res \in {PointEncryptCall(pub, D, read)} :
          ret' = [fn |-> "PointEncrypt", read |-> read, ct |-> res.ct,
                  nonce |-> res.nonce, err |-> res.err]
    /\ pc' = "call.done"
    /\ UNCHANGED callFrame

\* share, ri, err := ShareCal(&Q, &rB, priv), with Q = qd*B and rB = r*B.
CallShareCal ==
    /\ pc = "call.start"
    /\ \E file \in {"proof", "plain"}, priv \in PrivKeys, qd \in Scalars,
          r \in Scalars, read \in Reads :
       \E Q \in {ScalarBaseMult(Bytes(qd))}, rB \in {ScalarBaseMult(Bytes(r))} :
       \E res \in {IF file = "proof" THEN ShareCalCall(Q, rB, priv, read)
                                     ELSE ShareCalPlainCall(Q, rB, priv, read)} :
          ret' = [fn |-> "ShareCal", file |-> file, sk |-> priv.D, qd |-> qd,
                  r |-> r, read |-> read, share |-> res.share, ri |-> res.ri,
                  nonce |-> res.nonce, err |-> res.err,
                  negY |-> IF res.err # Nil THEN Nil
                           ELSE IF file = "proof" THEN ShareCalNegY(rB, priv)
                           ELSE ShareCalNegYPlain(rB, priv)]
    /\ pc' = "call.done"
    /\ UNCHANGED callFrame

\* D, err := PointDecrypt(ct, priv)
CallPointDecrypt ==
    /\ pc = "call.start"
    /\ \E file \in {"proof", "plain"}, ct \in CipherTexts, priv \in PrivKeys :
       \E res \in {IF file = "proof" THEN PointDecryptCall(ct, priv)
                                     ELSE PointDecryptPlainCall(ct, priv)} :
          ret' = [fn |-> "PointDecrypt", file |-> file, D |-> res.D,
                  negY |-> res.negY, err |-> res.err]
    /\ pc' = "call.done"
    /\ UNCHANGED callFrame

\* The provers and the verifiers, by name.
ShareKinds == {"Share", "ShareNoB"}
ProofKinds == {"Share", "ShareNoB", "Proof", "ProofNoB"}

GenName(k) ==
    IF k = "Share" THEN "ShareProofGen"
    ELSE IF k = "ShareNoB" THEN "ShareProofGenNoB"
    ELSE IF k = "Proof" THEN "ProofGen" ELSE "ProofGenNoB"

\* The hash that returns digest for whatever bytes are written to it.
ConstantHash(digest) == [b \in Seq(0 .. 255) |-> digest]

\* c, r1, r2, err := the prover of kind k; the hash returns digest for the
\* bytes the prover writes.  For the share provers ri = y1, priv.D = y2,
\* Q = P1, rB = P2 and the share is the one of ShareCal; for the others
\* B = P1 (the generator for NoB), A1 = P1, A2 = P2, Y1 = y1*B, Y2 = y2*B,
\* A = y1*A1 + y2*A2.
CallProofGen ==
    /\ pc = "call.start"
    /\ \E k \in ProofKinds, y1 \in Nonces(MaxProofRandom),
          y2 \in Nonces(MaxProofRandom), P1 \in ProofPoints, P2 \in ProofPoints,
          read1 \in ProofReads, read2 \in ProofReads, digest \in 0 .. MaxDigest :
       \E priv \in {GenPrivKey(y2)}, draws \in {ProofDraws(read1, read2)},
          B \in {IF k = "Proof" THEN P1 ELSE BasePoint} :
       \E share \in {ShareCal(P1, P2, priv, y1).share},
          Y1 \in {ScalarMult(B, Bytes(y1))}, Y2 \in {ScalarMult(B, Bytes(y2))},
          A \in {CurveAdd(ScalarMult(P1, Bytes(y1)), ScalarMult(P2, Bytes(y2)))} :
       \E h \in {ConstantHash(digest)} :
       \E res \in {IF k = "Share"
                   THEN ShareProofGenCall(h, y1, priv, share, P1, P2, draws)
                   ELSE IF k = "ShareNoB"
                   THEN ShareProofGenNoBCall(h, y1, priv, share, P1, P2, draws)
                   ELSE IF k = "Proof"
                   THEN ProofGenCall(h, y1, y2, draws, B, Y1, Y2, P1, P2, A)
                   ELSE ProofGenNoBCall(h, y1, y2, draws, Y1, Y2, P1, P2, A)} :
          ret' = [fn |-> GenName(k), read1 |-> read1, read2 |-> read2,
                  draws |-> draws, digest |-> digest,
                  c |-> res.c, r1 |-> res.r1, r2 |-> res.r2, err |-> res.err,
                  negY |-> IF k \in ShareKinds THEN NegRB(P2).Y ELSE Nil]
    /\ pc' = "call.done"
    /\ UNCHANGED callFrame

\* flag, err := ProofVrf(c, r1, r2, &B, &Y1, &Y2, &A1, &A2, &A) on any
\* proof values and points, with A1 = B.
CallProofVrf ==
    /\ pc = "call.start"
    /\ \E B \in ProofPoints, Y1 \in ProofPoints,
          Y2 \in ProofPoints, A2 \in ProofPoints, A \in ProofPoints,
          c \in 0 .. MaxCallScalar, r1 \in 0 .. MaxCallScalar,
          r2 \in 0 .. MaxCallScalar, digest \in 0 .. MaxCallScalar :
       \E h \in {ConstantHash(digest)} :
       \E res \in {ProofVrfCall(h, c, r1, r2, B, Y1, Y2, B, A2, A)} :
          ret' = [fn |-> "ProofVrf", flag |-> res.flag, err |-> res.err,
                  negY |-> Nil]
    /\ pc' = "call.done"
    /\ UNCHANGED callFrame

\* flag, err := ProofVrfNoB(c, r1, r2, &Y1, &Y2, &A1, &A2, &A) on any proof
\* values and points.
CallProofVrfNoB ==
    /\ pc = "call.start"
    /\ \E Y1 \in ProofPoints, Y2 \in ProofPoints,
          A1 \in ProofPoints, A2 \in ProofPoints, A \in ProofPoints,
          c \in 0 .. MaxCallScalar, r1 \in 0 .. MaxCallScalar,
          r2 \in 0 .. MaxCallScalar, digest \in 0 .. MaxCallScalar :
       \E h \in {ConstantHash(digest)} :
       \E res \in {ProofVrfNoBCall(h, c, r1, r2, Y1, Y2, A1, A2, A)} :
          ret' = [fn |-> "ProofVrfNoB", flag |-> res.flag, err |-> res.err,
                  negY |-> Nil]
    /\ pc' = "call.done"
    /\ UNCHANGED callFrame

\* flag, err := ShareProofVry(c, r1, r2, &share, &N, &Q, &rB) on any proof values
\* and points.
CallShareProofVry ==
    /\ pc = "call.start"
    /\ \E K \in ProofPoints, C \in ProofPoints,
          N \in ProofPoints, Q \in ProofPoints, rB \in ProofPoints,
          c \in 0 .. MaxCallScalar, r1 \in 0 .. MaxCallScalar,
          r2 \in 0 .. MaxCallScalar, digest \in 0 .. MaxCallScalar :
       \E share \in {[K |-> K, C |-> C]} :
       \E h \in {ConstantHash(digest)} :
       \E res \in {ShareProofVryCall(h, c, r1, r2, share, N, Q, rB)} :
          ret' = [fn |-> "ShareProofVry", flag |-> res.flag, err |-> res.err,
                  negY |-> NegRB(rB).Y]
    /\ pc' = "call.done"
    /\ UNCHANGED callFrame

\* flag, err := ShareProofVryNoB(c, r1, r2, &share, &N, &Q, &rB) on any proof values
\* and points.
CallShareProofVryNoB ==
    /\ pc = "call.start"
    /\ \E K \in ProofPoints, C \in ProofPoints,
          N \in ProofPoints, Q \in ProofPoints, rB \in ProofPoints,
          c \in 0 .. MaxCallScalar, r1 \in 0 .. MaxCallScalar,
          r2 \in 0 .. MaxCallScalar, digest \in 0 .. MaxCallScalar :
       \E share \in {[K |-> K, C |-> C]} :
       \E h \in {ConstantHash(digest)} :
       \E res \in {ShareProofVryNoBCall(h, c, r1, r2, share, N, Q, rB)} :
          ret' = [fn |-> "ShareProofVryNoB", flag |-> res.flag, err |-> res.err,
                  negY |-> NegRB(rB).Y]
    /\ pc' = "call.done"
    /\ UNCHANGED callFrame

\* ShareProofGen and ShareProofGenNoB on the same arguments, with the same
\* nonces and under the same hash: it returns digest for the bytes of the
\* first call, and for the bytes of the second call when they are the same
\* bytes, other otherwise.
CallShareProofGenPair ==
    /\ pc = "call.start"
    /\ \E y1 \in Nonces(MaxProofRandom), y2 \in Nonces(MaxProofRandom),
          P1 \in ProofPoints, P2 \in ProofPoints,
          read1 \in ProofReads, read2 \in ProofReads,
          digest \in 0 .. MaxCallScalar, other \in 0 .. MaxCallScalar :
       \E priv \in {GenPrivKey(y2)}, draws \in {ProofDraws(read1, read2)} :
       \E share \in {ShareCal(P1, P2, priv, y1).share} :
       \E h \in {IF draws.err # Nil THEN <<>>
                 ELSE (ShareGenTranscript(y1, priv, share, P1, P2, draws.v1, draws.v2) :> digest) @@
                      (ShareGenTranscriptNoB(y1, priv, share, P1, P2, draws.v1, draws.v2) :> other)} :
          ret' = [fn |-> "ShareProofGen, ShareProofGenNoB", draws |-> draws,
                  digest |-> digest, other |-> other,
                  withB |-> ShareProofGenCall(h, y1, priv, share, P1, P2, draws),
                  noB |-> ShareProofGenNoBCall(h, y1, priv, share, P1, P2, draws)]
    /\ pc' = "call.done"
    /\ UNCHANGED callFrame

\* ShareProofVry and ShareProofVryNoB on the same proof and points, under
\* the same hash.
CallShareProofVryPair ==
    /\ pc = "call.start"
    /\ \E K \in ProofPoints, C \in ProofPoints, N \in ProofPoints,
          Q \in ProofPoints, rB \in ProofPoints,
          c \in 0 .. MaxCallScalar, r1 \in 0 .. MaxCallScalar,
          r2 \in 0 .. MaxCallScalar,
          digest \in 0 .. MaxCallScalar, other \in 0 .. MaxCallScalar :
       \E share \in {[K |-> K, C |-> C]} :
       \E h \in {(ShareVryTranscript(c, r1, r2, share, N, Q, rB) :> digest) @@
                 (ShareVryTranscriptNoB(c, r1, r2, share, N, Q, rB) :> other)} :
          ret' = [fn |-> "ShareProofVry, ShareProofVryNoB", c |-> c,
                  digest |-> digest, other |-> other,
                  withB |-> ShareProofVryCall(h, c, r1, r2, share, N, Q, rB),
                  noB |-> ShareProofVryNoBCall(h, c, r1, r2, share, N, Q, rB)]
    /\ pc' = "call.done"
    /\ UNCHANGED callFrame

\* collPriv := CollPrivKey(privs)
CallCollPrivKey ==
    /\ pc = "call.start"
    /\ \E privs \in ListsUpTo(PrivKeys, MaxCallKeys) :
       \E res \in {CollPrivKeyCall(privs)} :
          ret' = [fn |-> "CollPrivKey", len |-> Len(privs), panic |-> res.panic,
                  out |-> res.out, err |-> res.err]
    /\ pc' = "call.done"
    /\ UNCHANGED callFrame

\* collPub := CollPubKey(pubs)
CallCollPubKey ==
    /\ pc = "call.start"
    /\ \E privs \in ListsUpTo(PrivKeys, MaxCallKeys) :
       \E res \in {CollPubKeyCall([i \in DOMAIN privs |-> GetPubKey(privs[i])])} :
          ret' = [fn |-> "CollPubKey", len |-> Len(privs), panic |-> res.panic,
                  out |-> res.out, err |-> res.err]
    /\ pc' = "call.done"
    /\ UNCHANGED callFrame

\* ct, err := ShareReplace(&shares, rct)
CallShareReplace ==
    /\ pc = "call.start"
    /\ \E shares \in ListsUpTo(CipherTexts, MaxCallShares), rct \in CipherTexts :
       \E res \in {ShareReplaceCall(shares, rct)} :
          ret' = [fn |-> "ShareReplace", len |-> Len(shares), panic |-> res.panic,
                  out |-> res.out, err |-> res.err]
    /\ pc' = "call.done"
    /\ UNCHANGED callFrame

NextCalls ==
    \/ CallRandFieldElement
    \/ CallPointEncrypt
    \/ CallShareCal
    \/ CallPointDecrypt
    \/ CallCollPrivKey
    \/ CallCollPubKey
    \/ CallShareReplace
    \/ CallProofGen
    \/ CallProofVrf
    \/ CallProofVrfNoB
    \/ CallShareProofVry
    \/ CallShareProofVryNoB
    \/ CallShareProofGenPair
    \/ CallShareProofVryPair

SpecCalls == InitCalls /\ [][NextCalls]_vars

(***************************************************************************)
(* The heap.  A *big.Int is the address of a cell that holds an integer;   *)
(* a key, a point or a ciphertext is the address of a cell that holds a    *)
(* struct, whose X, Y and D fields are addresses of integers (0 is nil); a *)
(* slice is the list of the addresses of its elements.  An address is an   *)
(* index in the heap, and an allocation appends a cell.  A function of the *)
(* library is the list of its statements that read or write the heap, in   *)
(* the order of the code; an operand is <<a>>, the address a, or           *)
(* <<a, f>> or <<a, f, g>>, the address in field f (f.g) of the struct at  *)
(* a when the statement runs.  The backend returns integers it has         *)
(* allocated.                                                              *)
(***************************************************************************)

\* The cells of curve.Params().Gx, .Gy, .P, .N and the package variable one.
ParamsHeap == <<ParamsGx, ParamsGy, ParamsP, ParamsN, 1>>
ParamsAt == [Gx |-> 1, Gy |-> 2, P |-> 3, N |-> 4, one |-> 5]

\* The only element of a set of one element.
Only(S) == CHOOSE e \in S : TRUE

\* The address an operand denotes on the heap hp.
Resolve(hp, o) ==
    IF Len(o) = 1 THEN o[1]
    ELSE IF Len(o) = 2 THEN hp[o[1]][o[2]]
    ELSE hp[o[1]][o[2]][o[3]]

\* The integer an operand refers to.
Deref(hp, o) == hp[Resolve(hp, o)]

\* The point two operands refer to.
HeapPoint(hp, x, y) == [X |-> Deref(hp, x), Y |-> Deref(hp, y)]

\* The statements.
\* new(big.Int) holding v, var s T, or any new struct v
New(v) == [op |-> "new", v |-> v]
\* s := *a for a struct, new(big.Int).Set(a) for an integer
Copy(a) == [op |-> "copy", a |-> a]
\* s.f = a (f is <<"X">> or <<"K", "X">>): the field holds the address a
Field(s, f, a) == [op |-> "field", s |-> s, f |-> f, a |-> a]
\* z.Neg(x), z.Mod(x, y), z.Add(x, y), z.Sub(x, y), z.Mul(x, y)
Arith(op, z, x, y) == [op |-> op, z |-> z, x |-> x, y |-> y]
\* if z.Cmp(y) >= 0 { z.Mod(z, y) }
ModIfNotLess(z, y) == [op |-> "modge", z |-> z, y |-> y]
\* curve.Add(x1, y1, x2, y2): two new integers
Add(x1, y1, x2, y2) == [op |-> "Add", x1 |-> x1, y1 |-> y1, x2 |-> x2, y2 |-> y2]
\* curve.ScalarMult(x, y, k.Bytes()): two new integers
Mult(x, y, k) == [op |-> "ScalarMult", x |-> x, y |-> y, k |-> k]
\* curve.ScalarBaseMult(k.Bytes()): two new integers
BaseMult(k) == [op |-> "ScalarBaseMult", k |-> k]

\* The value an arithmetic method leaves in its receiver.
ArithValue(op, x, y) ==
    IF op = "neg" THEN -x
    ELSE IF op = "mod" THEN x % y
    ELSE IF op = "add" THEN x + y
    ELSE IF op = "sub" THEN x - y
    ELSE x * y

\* The heap after the statement s.
Exec(hp, s) ==
    IF s.op = "new" THEN Append(hp, s.v)
    ELSE IF s.op = "copy" THEN Append(hp, Deref(hp, s.a))
    ELSE IF s.op = "field"
    THEN IF Len(s.f) = 1
         THEN [hp EXCEPT ![s.s][s.f[1]] = Resolve(hp, s.a)]
         ELSE [hp EXCEPT ![s.s][s.f[1]][s.f[2]] = Resolve(hp, s.a)]
    ELSE IF s.op = "modge"
    THEN IF Deref(hp, s.z) >= Deref(hp, s.y)
         THEN [hp EXCEPT ![Resolve(hp, s.z)] = Deref(hp, s.z) % Deref(hp, s.y)]
         ELSE hp
    ELSE IF s.op = "Add"
    THEN hp \o <<CurveAdd(HeapPoint(hp, s.x1, s.y1), HeapPoint(hp, s.x2, s.y2)).X,
                 CurveAdd(HeapPoint(hp, s.x1, s.y1), HeapPoint(hp, s.x2, s.y2)).Y>>
    ELSE IF s.op = "ScalarMult"
    THEN hp \o <<ScalarMult(HeapPoint(hp, s.x, s.y), Bytes(Deref(hp, s.k))).X,
                 ScalarMult(HeapPoint(hp, s.x, s.y), Bytes(Deref(hp, s.k))).Y>>
    ELSE IF s.op = "ScalarBaseMult"
    THEN hp \o <<ScalarBaseMult(Bytes(Deref(hp, s.k))).X,
                 ScalarBaseMult(Bytes(Deref(hp, s.k))).Y>>
    ELSE [hp EXCEPT ![Resolve(hp, s.z)] =
              ArithValue(s.op, Deref(hp, s.x), Deref(hp, s.y))]

\* The heap after the statements prog[i ..].
RECURSIVE Run(_, _, _)
Run(hp, prog, i) ==
    IF i > Len(prog) THEN hp
    ELSE Only({Run(h, prog, i + 1) : h \in {Exec(hp, prog[i])}})

\* The statements of the iterations lo .. hi of a loop with the body
\* body[i].
RECURSIVE Loop(_, _, _)
Loop(body, lo, hi) ==
    IF lo > hi THEN <<>> ELSE body[lo] \o Loop(body, lo + 1, hi)

\* The operands of the coordinates of the point at p, and of the point in
\* field f of the ciphertext at s.
PointAt(p) == [X |-> <<p, "X">>, Y |-> <<p, "Y">>]
PointIn(s, f) == [X |-> <<s, f, "X">>, Y |-> <<s, f, "Y">>]

\* A point and a ciphertext with no coordinate set.
NilPoint == [X |-> 0, Y |-> 0]
NilCipherText == [K |-> NilPoint, C |-> NilPoint]

(***************************************************************************)
(* The functions, on a heap of L cells.                                    *)
(***************************************************************************)

\* CollPrivKey: collPrivKey (L+1) is a copy of privs[0], collPriv (L+2)
\* is new, and D, X, Y of the copy are set to new integers.
ProgCollPrivKey(L, privs) ==
    <<Copy(<<privs[1]>>), New(0)>> \o
    Loop([i \in 1 .. Len(privs) |->
             <<Arith("add", <<L + 2>>, <<L + 2>>, <<privs[i], "D">>),
               ModIfNotLess(<<L + 2>>, <<ParamsAt.N>>)>>], 1, Len(privs)) \o
    <<Field(L + 1, <<"D">>, <<L + 2>>),
      BaseMult(<<L + 1, "D">>),
      Field(L + 1, <<"X">>, <<L + 3>>),
      Field(L + 1, <<"Y">>, <<L + 4>>)>>

\* CollPubKey: collPubKey (L+1) is a copy of pubs[0]; iteration i sets its
\* X and Y to the new integers of the sum.
ProgCollPubKey(L, pubs) ==
    <<Copy(<<pubs[1]>>)>> \o
    Loop([i \in 2 .. Len(pubs) |->
             <<Add(<<L + 1, "X">>, <<L + 1, "Y">>, <<pubs[i], "X">>, <<pubs[i], "Y">>),
               Field(L + 1, <<"X">>, <<L + 2 * (i - 1)>>),
               Field(L + 1, <<"Y">>, <<L + 2 * (i - 1) + 1>>)>>], 2, Len(pubs))

\* ShareReplace: sigma (L+1) is a copy of (*shares)[0]; iteration i sets
\* its four coordinates to new integers; ct is a copy of sigma, and ct.C
\* is set to the new integers of sigma.C + rct.C.
ProgShareReplace(L, shares, rct) ==
    <<Copy(<<shares[1]>>)>> \o
    Loop([i \in 2 .. Len(shares) |->
             <<Add(<<L + 1, "K", "X">>, <<L + 1, "K", "Y">>,
                   <<shares[i], "K", "X">>, <<shares[i], "K", "Y">>),
               Field(L + 1, <<"K", "X">>, <<L + 4 * (i - 2) + 2>>),
               Field(L + 1, <<"K", "Y">>, <<L + 4 * (i - 2) + 3>>),
               Add(<<L + 1, "C", "X">>, <<L + 1, "C", "Y">>,
                   <<shares[i], "C", "X">>, <<shares[i], "C", "Y">>),
               Field(L + 1, <<"C", "X">>, <<L + 4 * (i - 2) + 4>>),
               Field(L + 1, <<"C", "Y">>, <<L + 4 * (i - 2) + 5>>)>>],
         2, Len(shares)) \o
    <<Copy(<<L + 1>>),
      Add(<<L + 1, "C", "X">>, <<L + 1, "C", "Y">>, <<rct, "C", "X">>, <<rct, "C", "Y">>),
      Field(L + 4 * (Len(shares) - 1) + 2, <<"C", "X">>,
            <<L + 4 * (Len(shares) - 1) + 3>>),
      Field(L + 4 * (Len(shares) - 1) + 2, <<"C", "Y">>,
            <<L + 4 * (Len(shares) - 1) + 4>>)>>

\* randFieldElement on the integer t of the bytes read: k (L+1) and
\* n (L+2) are new.
ProgRandFieldElement(L, t) ==
    <<New(t),
      New(0), Arith("sub", <<L + 2>>, <<ParamsAt.N>>, <<ParamsAt.one>>),
      Arith("mod", <<L + 1>>, <<L + 1>>, <<L + 2>>),
      Arith("add", <<L + 1>>, <<L + 1>>, <<ParamsAt.one>>)>>

\* PointEncrypt: ct (L+1) is new, r is L+2.
ProgPointEncrypt(L, pub, D, t) ==
    <<New(NilCipherText)>> \o ProgRandFieldElement(L + 1, t) \o
    <<BaseMult(<<L + 2>>),
      Field(L + 1, <<"K", "X">>, <<L + 4>>), Field(L + 1, <<"K", "Y">>, <<L + 5>>),
      Mult(<<pub, "X">>, <<pub, "Y">>, <<L + 2>>),
      Add(<<L + 6>>, <<L + 7>>, <<D, "X">>, <<D, "Y">>),
      Field(L + 1, <<"C", "X">>, <<L + 8>>), Field(L + 1, <<"C", "Y">>, <<L + 9>>)>>

\* PointDecrypt: rKx, rKy (L+1, L+2) come from the backend.  In the
\* proof-enabled file negrKy (L+3) is new and reduced, and D is L+4; in
\* ppks.go (inPlace) negrKy is rKy, negated in place, and D is L+3.
ProgPointDecrypt(L, ct, priv, inPlace) ==
    <<Mult(<<ct, "K", "X">>, <<ct, "K", "Y">>, <<priv, "D">>)>> \o
    (IF inPlace
     THEN <<Arith("neg", <<L + 2>>, <<L + 2>>, <<L + 2>>),
            New(NilPoint),
            Add(<<ct, "C", "X">>, <<ct, "C", "Y">>, <<L + 1>>, <<L + 2>>),
            Field(L + 3, <<"X">>, <<L + 4>>), Field(L + 3, <<"Y">>, <<L + 5>>)>>
     ELSE <<New(0), Arith("neg", <<L + 3>>, <<L + 2>>, <<L + 2>>),
            Arith("mod", <<L + 3>>, <<L + 3>>, <<ParamsAt.P>>),
            New(NilPoint),
            Add(<<ct, "C", "X">>, <<ct, "C", "Y">>, <<L + 1>>, <<L + 3>>),
            Field(L + 4, <<"X">>, <<L + 5>>), Field(L + 4, <<"Y">>, <<L + 6>>)>>)

\* ShareCal: share is L+1, ri is L+2, and rBkiy (L+7) comes from the
\* backend and is negated in place; ppks.go (noMod) does not reduce it.
ProgShareCal(L, targetPubKey, rB, priv, t, noMod) ==
    <<New(NilCipherText)>> \o ProgRandFieldElement(L + 1, t) \o
    <<BaseMult(<<L + 2>>),
      Field(L + 1, <<"K", "X">>, <<L + 4>>), Field(L + 1, <<"K", "Y">>, <<L + 5>>),
      Mult(<<rB, "X">>, <<rB, "Y">>, <<priv, "D">>),
      Arith("neg", <<L + 7>>, <<L + 7>>, <<L + 7>>)>> \o
    (IF noMod THEN <<>>
     ELSE <<Arith("mod", <<L + 7>>, <<L + 7>>, <<ParamsAt.P>>)>>) \o
    <<Mult(<<targetPubKey, "X">>, <<targetPubKey, "Y">>, <<L + 2>>),
      Add(<<L + 6>>, <<L + 7>>, <<L + 8>>, <<L + 9>>),
      Field(L + 1, <<"C", "X">>, <<L + 10>>), Field(L + 1, <<"C", "Y">>, <<L + 11>>)>>

\* ProofGen, and ProofGenNoB (noB, which takes v1*G and v2*G from
\* ScalarBaseMult): v1 is L+1 and v2 is L+3, the results of the backend are
\* L+5 .. L+14, c (L+15) holds the digest, r1 is first L+16 and then
\* L+17, and r2 is L+18.
ProgProofGen(L, y1, y2, B, A1, A2, t1, t2, digest, noB) ==
    ProgRandFieldElement(L, t1) \o ProgRandFieldElement(L + 2, t2) \o
    (IF noB THEN <<BaseMult(<<L + 1>>), BaseMult(<<L + 3>>)>>
     ELSE <<Mult(B.X, B.Y, <<L + 1>>), Mult(B.X, B.Y, <<L + 3>>)>>) \o
    <<Mult(A1.X, A1.Y, <<L + 1>>), Mult(A2.X, A2.Y, <<L + 3>>),
      Add(<<L + 9>>, <<L + 10>>, <<L + 11>>, <<L + 12>>),
      New(digest),
      New(0), Arith("mul", <<L + 16>>, <<L + 15>>, y1),
      Arith("mod", <<L + 16>>, <<L + 16>>, <<ParamsAt.N>>),
      New(0), Arith("sub", <<L + 17>>, <<L + 1>>, <<L + 16>>),
      Arith("mod", <<L + 17>>, <<L + 17>>, <<ParamsAt.N>>),
      New(0), Arith("mul", <<L + 18>>, <<L + 15>>, y2),
      Arith("mod", <<L + 18>>, <<L + 18>>, <<ParamsAt.N>>),
      Arith("sub", <<L + 18>>, <<L + 3>>, <<L + 18>>),
      Arith("mod", <<L + 18>>, <<L + 18>>, <<ParamsAt.N>>)>>

\* ProofVrf, and ProofVrfNoB (noB, which takes r1*G and r2*G from
\* ScalarBaseMult): the eleven results of the backend are L+1 .. L+22 and
\* c_new is L+23.
ProgProofVrf(L, c, r1, r2, B, Y1, Y2, A1, A2, A, digest, noB) ==
    <<IF noB THEN BaseMult(r1) ELSE Mult(B.X, B.Y, r1),
      Mult(Y1.X, Y1.Y, c),
      Add(<<L + 1>>, <<L + 2>>, <<L + 3>>, <<L + 4>>),
      IF noB THEN BaseMult(r2) ELSE Mult(B.X, B.Y, r2),
      Mult(Y2.X, Y2.Y, c),
      Add(<<L + 7>>, <<L + 8>>, <<L + 9>>, <<L + 10>>),
      Mult(A1.X, A1.Y, r1), Mult(A2.X, A2.Y, r2), Mult(A.X, A.Y, c),
      Add(<<L + 13>>, <<L + 14>>, <<L + 15>>, <<L + 16>>),
      Add(<<L + 19>>, <<L + 20>>, <<L + 17>>, <<L + 18>>),
      New(digest)>>

\* A2 = -rB with A2.X and A2.Y the integers of rB, not copies of them.
ProgNegateInPlace(L, rB) ==
    <<New(NilPoint),
      New(0), Field(L + 1, <<"X">>, <<rB, "X">>),
      New(0), Field(L + 1, <<"Y">>, <<rB, "Y">>),
      Arith("neg", <<L + 1, "Y">>, <<L + 1, "Y">>, <<L + 1, "Y">>),
      Arith("mod", <<L + 1, "Y">>, <<L + 1, "Y">>, <<ParamsAt.P>>)>>

\* A2 = -rB of the wrappers: A2 (L+1) is new, A2.X (L+2) and A2.Y (L+3)
\* are copies of rB.X and rB.Y, and A2.Y is negated and reduced in place.
ProgNegate(L, rB) ==
    <<New(NilPoint),
      Copy(<<rB, "X">>), Field(L + 1, <<"X">>, <<L + 2>>),
      Copy(<<rB, "Y">>), Field(L + 1, <<"Y">>, <<L + 3>>),
      Arith("neg", <<L + 1, "Y">>, <<L + 1, "Y">>, <<L + 1, "Y">>),
      Arith("mod", <<L + 1, "Y">>, <<L + 1, "Y">>, <<ParamsAt.P>>)>>

\* ShareProofGen: B (L+1) is new and its X and Y are the integers of the
\* curve parameters, A2 is L+2, and ProofGen runs on L+4 cells.
\* ShareProofGenNoB (noB) has no B: A2 is L+1 and ProofGenNoB runs on L+3
\* cells.
ProgShareProofGen(L, ri, priv, share, targetPubKey, rB, t1, t2, digest, noB) ==
    IF noB
    THEN ProgNegate(L, rB) \o
         ProgProofGen(L + 3, <<ri>>, <<priv, "D">>, PointAt(L + 1),
                      PointAt(targetPubKey), PointAt(L + 1), t1, t2, digest, TRUE)
    ELSE <<New(NilPoint), Field(L + 1, <<"X">>, <<ParamsAt.Gx>>),
           Field(L + 1, <<"Y">>, <<ParamsAt.Gy>>)>> \o
         ProgNegate(L + 1, rB) \o
         ProgProofGen(L + 4, <<ri>>, <<priv, "D">>, PointAt(L + 1),
                      PointAt(targetPubKey), PointAt(L + 2), t1, t2, digest, FALSE)

\* ShareProofVry and ShareProofVryNoB (noB), with B and A2 as in
\* ShareProofGen and ShareProofGenNoB.
ProgShareProofVry(L, c, r1, r2, share, nodePubKey, targetPubKey, rB, digest, noB) ==
    IF noB
    THEN ProgNegate(L, rB) \o
         ProgProofVrf(L + 3, <<c>>, <<r1>>, <<r2>>, PointAt(L + 1), PointIn(share, "K"),
                      PointAt(nodePubKey), PointAt(targetPubKey), PointAt(L + 1),
                      PointIn(share, "C"), digest, TRUE)
    ELSE <<New(NilPoint), Field(L + 1, <<"X">>, <<ParamsAt.Gx>>),
           Field(L + 1, <<"Y">>, <<ParamsAt.Gy>>)>> \o
         ProgNegate(L + 1, rB) \o
         ProgProofVrf(L + 4, <<c>>, <<r1>>, <<r2>>, PointAt(L + 1), PointIn(share, "K"),
                      PointAt(nodePubKey), PointAt(targetPubKey), PointAt(L + 2),
                      PointIn(share, "C"), digest, FALSE)

(***************************************************************************)
(* The heap of the caller: the parameters and the arguments of the call.   *)
(***************************************************************************)

\* Longest key list and share list of a call on the heap.
MaxFrameKeys == 2
\* Largest private scalar, nonce and proof scalar of a call on the heap.
MaxFrameScalar == 2
\* Largest integer read from the random source, and largest digest.
MaxFrameRead == 1

FrameScalars == 1 .. MaxFrameScalar
FramePoints == {GenPoint(d) : d \in FrameScalars}
FramePrivKeys == {GenPrivKey(d) : d \in FrameScalars}
FrameReads == 0 .. MaxFrameRead
FrameLists(S) == ListsUpTo(S, MaxFrameKeys) \ {<<>>}

\* The cells of a point, a private key and a ciphertext allocated on a heap
\* of L cells: the integers, then the struct (at L+3, L+4 and L+5).
CellsOfPoint(L, pt) == <<pt.X, pt.Y, [X |-> L + 1, Y |-> L + 2]>>
CellsOfPriv(L, k) == <<k.D, k.X, k.Y, [D |-> L + 1, X |-> L + 2, Y |-> L + 3]>>
CellsOfCipher(L, ct) ==
    <<ct.K.X, ct.K.Y, ct.C.X, ct.C.Y,
      [K |-> [X |-> L + 1, Y |-> L + 2], C |-> [X |-> L + 3, Y |-> L + 4]]>>

\* The cells of the elements i .. of a slice of elements of w cells each,
\* allocated on a heap of L cells; element i is at L + w*i.
RECURSIVE CellsOfSlice(_, _, _, _)
CellsOfSlice(L, w, elems, i) ==
    IF i > Len(elems) THEN <<>>
    ELSE (IF w = 3 THEN CellsOfPoint(L + w * (i - 1), elems[i])
          ELSE IF w = 4 THEN CellsOfPriv(L + w * (i - 1), elems[i])
          ELSE CellsOfCipher(L + w * (i - 1), elems[i]))
         \o CellsOfSlice(L, w, elems, i + 1)
SliceAt(L, w, n) == [i \in 1 .. n |-> L + w * i]

\* The state after the call fn on the heap pre with the statements prog.
Framed(fn, pre, prog) ==
    /\ \E post \in {Run(pre, prog, 1)} :
          ret' = [fn |-> fn, pre |-> pre, post |-> post]
    /\ pc' = "frame.done"
    /\ UNCHANGED callFrame

FrameCollPrivKey ==
    /\ pc = "call.start"
    /\ \E privs \in FrameLists(FramePrivKeys) :
       \E pre \in {ParamsHeap \o CellsOfSlice(5, 4, privs, 1)} :
          Framed("CollPrivKey", pre,
                 ProgCollPrivKey(Len(pre), SliceAt(5, 4, Len(privs))))

FrameCollPubKey ==
    /\ pc = "call.start"
    /\ \E pubs \in FrameLists(FramePoints) :
       \E pre \in {ParamsHeap \o CellsOfSlice(5, 3, pubs, 1)} :
          Framed("CollPubKey", pre,
                 ProgCollPubKey(Len(pre), SliceAt(5, 3, Len(pubs))))

FrameShareReplace ==
    /\ pc = "call.start"
    /\ \E shares \in FrameLists(FramePoints \X FramePoints),
          rK \in FramePoints, rC \in FramePoints :
       \E pre \in {ParamsHeap \o CellsOfCipher(5, [K |-> rK, C |-> rC])
                     \o CellsOfSlice(10, 5,
                            [i \in 1 .. Len(shares) |->
                                [K |-> shares[i][1], C |-> shares[i][2]]], 1)} :
          Framed("ShareReplace", pre,
                 ProgShareReplace(Len(pre), SliceAt(10, 5, Len(shares)), 10))

FramePointEncrypt ==
    /\ pc = "call.start"
    /\ \E pub \in FramePoints, D \in Points, t \in FrameReads :
       \E pre \in {ParamsHeap \o CellsOfPoint(5, pub) \o CellsOfPoint(8, D)} :
          Framed("PointEncrypt", pre, ProgPointEncrypt(Len(pre), 8, 11, t))

FramePointDecrypt ==
    /\ pc = "call.start"
    /\ \E K \in FramePoints, C \in FramePoints, priv \in FramePrivKeys,
          inPlace \in BOOLEAN :
       \E pre \in {ParamsHeap \o CellsOfCipher(5, [K |-> K, C |-> C])
                     \o CellsOfPriv(10, priv)} :
          Framed("PointDecrypt", pre,
                 ProgPointDecrypt(Len(pre), 10, 14, inPlace))

FrameShareCal ==
    /\ pc = "call.start"
    /\ \E target \in FramePoints, rB \in FramePoints, priv \in FramePrivKeys,
          t \in FrameReads, noMod \in BOOLEAN :
       \E pre \in {ParamsHeap \o CellsOfPoint(5, target) \o CellsOfPoint(8, rB)
                     \o CellsOfPriv(11, priv)} :
          Framed("ShareCal", pre,
                 ProgShareCal(Len(pre), 8, 11, 15, t, noMod))

\* The heap of a prover: ri (6), priv (10), share (15), targetPubKey (18)
\* and rB (21).
ProverHeap(ri, priv, share, target, rB) ==
    ParamsHeap \o <<ri>> \o CellsOfPriv(6, priv) \o CellsOfCipher(10, share)
        \o CellsOfPoint(15, target) \o CellsOfPoint(18, rB)

FrameShareProofGen ==
    /\ pc = "call.start"
    /\ \E ri \in FrameScalars, priv \in FramePrivKeys, K \in FramePoints,
          C \in FramePoints, target \in FramePoints, rB \in FramePoints,
          t1 \in FrameReads, t2 \in FrameReads, digest \in FrameReads,
          noB \in BOOLEAN :
       \E pre \in {ProverHeap(ri, priv, [K |-> K, C |-> C], target, rB)} :
          Framed(IF noB THEN "ShareProofGenNoB" ELSE "ShareProofGen", pre,
                 ProgShareProofGen(Len(pre), 6, 10, 15, 18, 21, t1, t2, digest, noB))

\* The heap of a verifier: c (6), r1 (7), r2 (8), share (13), nodePubKey
\* (16), targetPubKey (19) and rB (22).
VerifierHeap(c, r1, r2, share, node, target, rB) ==
    ParamsHeap \o <<c, r1, r2>> \o CellsOfCipher(8, share)
        \o CellsOfPoint(13, node) \o CellsOfPoint(16, target)
        \o CellsOfPoint(19, rB)

FrameShareProofVry ==
    /\ pc = "call.start"
    /\ \E c \in FrameReads, r1 \in FrameScalars, r2 \in FrameScalars,
          K \in FramePoints, C \in FramePoints, node \in FramePoints,
          target \in FramePoints, rB \in FramePoints, digest \in FrameReads,
          noB \in BOOLEAN :
       \E pre \in {VerifierHeap(c, r1, r2, [K |-> K, C |-> C], node, target, rB)} :
          Framed(IF noB THEN "ShareProofVryNoB" ELSE "ShareProofVry", pre,
                 ProgShareProofVry(Len(pre), 6, 7, 8, 13, 16, 19, 22, digest, noB))

NextFrame ==
    \/ FrameCollPrivKey
    \/ FrameCollPubKey
    \/ FrameShareReplace
    \/ FramePointEncrypt
    \/ FramePointDecrypt
    \/ FrameShareCal
    \/ FrameShareProofGen
    \/ FrameShareProofVry

SpecFrame == InitCalls /\ [][NextFrame]_vars

(***************************************************************************)
(* The bytes written to the hash for two tuples of nine points.            *)
(***************************************************************************)

\* Largest coordinate of a point of the two tuples.
MaxCoord == 2

\* The places of B, Y1, Y2, A1, A2, A, T1, T2, T3 in a tuple.
Places == 1 .. 9

\* The points with coordinates of 0 .. MaxCoord, on the curve or not: the
\* code writes the coordinates of whatever point it is handed.
EncodePoints == [X : 0 .. MaxCoord, Y : 0 .. MaxCoord]

\* The tuple with the point pt at place i and the point rest elsewhere.
TupleWith(i, pt, rest) == [k \in Places |-> IF k = i THEN pt ELSE rest]

\* The bytes of the eighteen h.Write calls for the tuple t.
TranscriptOf(t) == Transcript(t[1], t[2], t[3], t[4], t[5], t[6], t[7], t[8], t[9])

\* ProofGen or ProofVrf writes one tuple to a hash, and another tuple to
\* another hash.
WriteTranscripts ==
    /\ pc = "call.start"
    /\ \E rest \in {Infinity, BasePoint}, i \in Places, k \in Places,
          P \in EncodePoints, Q \in EncodePoints :
       \E one \in {TupleWith(i, P, rest)}, other \in {TupleWith(k, Q, rest)} :
          ret' = [fn |-> "h.Write", one |-> one, other |-> other,
                  oneBytes |-> TranscriptOf(one),
                  otherBytes |-> TranscriptOf(other)]
    /\ pc' = "encode.done"
    /\ UNCHANGED callFrame

NextEncode == WriteTranscripts

SpecEncode == InitCalls /\ [][NextEncode]_vars

(***************************************************************************)
(* The properties.                                                         *)
(***************************************************************************)

\* C1 (Spec): when every share is the one ShareCal computed, the point
\* PointDecrypt returns for ShareReplace's ciphertext under the requester's
\* key is the plaintext D, for each library file.
KeySwitchReturnsD ==
    (pc = "done" /\ tampered = 0) => plain = pointD

KeySwitchReached ==
    /\ pc = "done"
    /\ tampered = 0
    /\ variant = "proof"
    /\ Len(pks) > 1
    /\ pks[1].D # pks[2].D
    /\ plain = pointD

\* C2 (SpecEnc): PointDecrypt(PointEncrypt(P, D), sk) is D for every key
\* pair, point and nonce, with the PointDecrypt of either file.
RoundTrip ==
    pc = "enc.decrypted" => plain = pointD

RoundTripReached ==
    /\ pc = "enc.decrypted"
    /\ variant = "plain"
    /\ pointD # Infinity
    /\ cipher.C # pointD
    /\ plain = pointD

\* C3 (SpecProof): the proof the prover returns is accepted by the verifier
\* of the same pair when it is handed the prover's public values, whatever
\* digest the hash returned.
ProofComplete ==
    (pc = "proof.verified" /\ vry.field = "none") => vry.flag

ProofCompleteReached ==
    /\ pc = "proof.verified"
    /\ vry.field = "none"
    /\ kind = "share"
    /\ pai.c >= ParamsN
    /\ vry.flag

\* C4 (SpecProof), as claimed: ShareProofVry, handed the honest proof and
\* one public point that differs from the prover's, returns false unless
\* the hash returned the proof's c for bytes it had not hashed before.
PointTamperRejected ==
    (pc = "proof.verified" /\ kind = "share" /\ vry.field \in PointFields
        /\ ~collided) => ~vry.flag

\* C4 (SpecProof), amended: the same, when the bytes ShareProofVry writes to
\* the hash are not the bytes the prover wrote.
PointTamperRejectedOnNewBytes ==
    (pc = "proof.verified" /\ kind = "share" /\ vry.field \in PointFields
        /\ ~collided /\ vry.bytes \notin DOMAIN sm3) => ~vry.flag

PointTamperReached ==
    /\ pc = "proof.verified"
    /\ kind = "share"
    /\ vry.field = "share.C"
    /\ vry.value # Infinity
    /\ stmt.share.C # Infinity
    /\ ~collided
    /\ vry.bytes \notin DOMAIN sm3
    /\ ~vry.flag

AggregationHomomorphic ==
    /\ pc \in {"keys.aggregated", "keys.encrypted", "keys.decrypted"}
          => GetPubKey(collSk) = collPk
    /\ pc = "keys.decrypted" => plain = pointD

AggregationReached ==
    /\ pc = "keys.decrypted"
    /\ Len(pks) > 2
    /\ collSk.D < pks[1].D
    /\ collSk.D > 0
    /\ pointD # Infinity
    /\ plain = pointD

\* C7 (SpecReplace): ShareReplace returns the same ciphertext for a share
\* list and for every reordering of it.
OrderInvariant ==
    pc = "rep.reordered" => reordered.tct = tct

OrderInvariantReached ==
    /\ pc = "rep.reordered"
    /\ Len(shareVec) > 2
    /\ reordered.shares[1] = shareVec[3]
    /\ reordered.shares[2] = shareVec[1]
    /\ shareVec[1] # shareVec[2]
    /\ shareVec[2] # shareVec[3]
    /\ shareVec[1] # shareVec[3]
    /\ reordered.tct = tct

\* The private keys of 1 .. n-1 other than the requester's under which
\* PointDecrypt returns D for the switched ciphertext.
OtherReaders ==
    {d \in Scalars \ {q.D} :
        (IF variant = "proof" THEN PointDecrypt(tct, GenPrivKey(d))
                              ELSE PointDecryptPlain(tct, GenPrivKey(d))) = pointD}

\* C8 (Spec), as claimed: with honest shares, PointDecrypt of the switched
\* ciphertext differs from D under every private key other than q.
RequesterAlone ==
    (pc \in {"replaced", "done"} /\ tampered = 0) => OtherReaders = {}

\* C8 (Spec), amended: the same, when the left point of the switched
\* ciphertext (the sum of the shares' K) is not the point at infinity.
RequesterAloneUnlessInfinity ==
    (pc \in {"replaced", "done"} /\ tampered = 0 /\ tct.K # Infinity)
        => OtherReaders = {}

RequesterAloneReached ==
    /\ pc = "done"
    /\ tampered = 0
    /\ Len(pks) > 1
    /\ tct.K # Infinity
    /\ plain = pointD
    /\ OtherReaders = {}

\* C9 (Spec), as claimed: when one share has C + B in place of C,
\* ShareReplace still returns a ciphertext, PointDecrypt returns D + B for it
\* under q, D + B differs from D, and the verifier returned false for that
\* share unless the hash returned the proof's c for bytes it had not hashed
\* before.
TamperedShareSwitched ==
    (pc = "done" /\ tampered # 0) =>
        /\ plain = CurveAdd(pointD, BasePoint)
        /\ plain # pointD
        /\ (variant = "proof" /\ ~collided) => flags[tampered] = FALSE

\* C9 (Spec), amended: the same, the verifier returning false for the
\* tampered share when the bytes it writes to the hash are not the bytes
\* the share's prover wrote.
TamperedShareSwitchedOnNewBytes ==
    (pc = "done" /\ tampered # 0) =>
        /\ plain = CurveAdd(pointD, BasePoint)
        /\ plain # pointD
        /\ (variant = "proof" /\ ~collided /\ ~sameInput)
              => flags[tampered] = FALSE

TamperedShareReached ==
    /\ pc = "done"
    /\ variant = "proof"
    /\ Len(pks) > 1
    /\ tampered = 2
    /\ ~sameInput
    /\ ~collided
    /\ flags = <<TRUE, FALSE>>
    /\ plain = CurveAdd(pointD, BasePoint)

\* C10 (Spec), as claimed: in the proof-enabled workflow ShareReplace is
\* computed only when the verifier returned true for every share.
ReplaceOnlyVerified ==
    (pc \in {"replaced", "done"} /\ variant = "proof")
        => \A i \in 1 .. Len(flags) : flags[i]

\* C17 (SpecOmit): when the list handed to ShareReplace lacks the share of
\* one committee member and the other shares are the ones ShareCal
\* computed, PointDecrypt of the result under q is not D.
OmittedShareBlocks ==
    (pc = "done" /\ omitted # 0 /\ tampered = 0) => plain # pointD

OmittedShareReached ==
    /\ pc = "done"
    /\ omitted = 1
    /\ tampered = 0
    /\ variant = "proof"
    /\ Len(pks) = 2
    /\ plain # pointD
    /\ plain \in Points


\* The call of the library function f has returned or panicked.
Called(f) == pc = "call.done" /\ ret.fn = f

\* The functions the error of which is always nil.
NoErrorFunctions ==
    {"PointDecrypt", "ShareReplace", "ProofVrf", "ProofVrfNoB", "ShareProofVry",
     "ShareProofVryNoB"}

\* The functions that aggregate a list.
ListFunctions == {"CollPrivKey", "CollPubKey", "ShareReplace"}

\* C11 (SpecCalls): whenever PointDecrypt, ShareReplace, ProofVrf,
\* ProofVrfNoB, ShareProofVry or ShareProofVryNoB returns, the error it
\* returns is nil; a proof that does not verify is returned as the boolean
\* false with a nil error.
OnlyEntropyFails ==
    (pc = "call.done" /\ ret.fn \in NoErrorFunctions
        /\ ~(ret.fn \in ListFunctions /\ ret.panic))
        => ret.err = Nil

OnlyEntropyFailsReached ==
    /\ Called("ShareProofVry")
    /\ ret.flag = FALSE
    /\ ret.err = Nil

\* C12 (SpecCalls), as claimed: CollPrivKey, CollPubKey and ShareReplace on
\* an empty list return an error of a kind of its own, and no key or
\* ciphertext.
EmptyListFailsDistinctly ==
    (pc = "call.done" /\ ret.fn \in ListFunctions /\ ret.len = 0)
        => (~ret.panic /\ ret.err \notin {Nil, EntropyFailure} /\ ret.out = Nil)

\* C13 (SpecCalls), as claimed: the key CollPrivKey returns for a nonempty
\* list of keys with D in 1 .. n-1 has D in 1 .. n-1.
AggregateKeyInRange ==
    (Called("CollPrivKey") /\ ret.len > 0) => ret.out.D \in 1 .. ParamsN - 1

\* The provers.
Provers == {"ProofGen", "ProofGenNoB", "ShareProofGen", "ShareProofGenNoB"}

\* C14 (SpecCalls), as claimed: every proof a prover returns has c, r1 and
\* r2 in 0 .. n-1.
ProofScalarsInRange ==
    (pc = "call.done" /\ ret.fn \in Provers /\ ret.err = Nil)
        => /\ ret.c \in 0 .. ParamsN - 1
           /\ ret.r1 \in 0 .. ParamsN - 1
           /\ ret.r2 \in 0 .. ParamsN - 1

\* C14 (SpecCalls), amended: every proof a prover returns has r1 and r2 in
\* 0 .. n-1, and c is the integer of the digest as it is, not reduced mod n.
ResponsesInRange ==
    (pc = "call.done" /\ ret.fn \in Provers /\ ret.err = Nil)
        => /\ ret.c = ret.digest
           /\ ret.r1 \in 0 .. ParamsN - 1
           /\ ret.r2 \in 0 .. ParamsN - 1

ResponsesInRangeReached ==
    /\ Called("ShareProofGen")
    /\ ret.err = Nil
    /\ ret.c >= ParamsN
    /\ ret.r1 \in 1 .. ParamsN - 1
    /\ ret.r2 \in 1 .. ParamsN - 1

\* The functions that negate a point.
Negators ==
    {"PointDecrypt", "ShareCal", "ShareProofGen", "ShareProofGenNoB",
     "ShareProofVry", "ShareProofVryNoB"}

\* C15 (SpecCalls), as claimed: in both library files, the y that
\* PointDecrypt, ShareCal, ShareProofGen(NoB) and ShareProofVry(NoB) hand to
\* the addition or to the hash after negating a point is in 0 .. p-1
\* (ShareCal negates nothing when the random source fails).
NegatedYReduced ==
    (pc = "call.done" /\ ret.fn \in Negators
        /\ (ret.fn = "ShareCal" => ret.err = Nil))
        => ret.negY \in 0 .. ParamsP - 1

\* C16 (SpecCalls): on the same arguments, with the same nonces and under
\* the same hash, ShareProofGen and ShareProofGenNoB return the same
\* (c, r1, r2, err); on the same proof and points ShareProofVry and
\* ShareProofVryNoB return the same flag.
NoBAgrees ==
    /\ Called("ShareProofGen, ShareProofGenNoB") => ret.withB = ret.noB
    /\ Called("ShareProofVry, ShareProofVryNoB") => ret.withB = ret.noB

NoBAgreesReached ==
    /\ Called("ShareProofVry, ShareProofVryNoB")
    /\ ret.digest # ret.other
    /\ ret.withB.flag
    /\ ret.noB.flag

\* C18 (SpecCalls): for every byte string read, randFieldElement returns
\* (t mod (n-1)) + 1, a scalar of 1 .. n-1, t being the integer of the
\* bytes; the nonces PointEncrypt, ShareCal and the provers use are in
\* 1 .. n-1.
SampledInRange ==
    /\ (Called("randFieldElement") /\ ret.err = Nil)
           => /\ ret.k = (SetBytes(ret.read) % (ParamsN - 1)) + 1
              /\ ret.k \in 1 .. ParamsN - 1
    /\ (pc = "call.done" /\ ret.fn \in {"PointEncrypt", "ShareCal"} /\ ret.err = Nil)
           => ret.nonce \in 1 .. ParamsN - 1
    /\ (pc = "call.done" /\ ret.fn \in Provers /\ ret.err = Nil)
           => /\ ret.draws.v1 \in 1 .. ParamsN - 1
              /\ ret.draws.v2 \in 1 .. ParamsN - 1

SampledInRangeReached ==
    /\ Called("randFieldElement")
    /\ ret.err = Nil
    /\ SetBytes(ret.read) > ParamsN
    /\ ret.k = ParamsN - 1

\* k times the point pt by repeated addition in the group.
RECURSIVE Times(_, _)
Times(k, pt) == IF k = 0 THEN Infinity ELSE GroupAdd(Times(k - 1, pt), pt)

\* C19 (SpecCalls): for Q = qd*B, rB = r*B and the key sk, ShareCal returns
\* K = ri*B and C = ri*Q - sk*rB = (ri*qd - sk*r)*B, with ri in 1 .. n-1;
\* in the proof-enabled file ri is the nonce returned with the share.
ShareIsCorrect ==
    (Called("ShareCal") /\ ret.err = Nil)
        => \E ri \in {IF ret.file = "proof" THEN ret.ri ELSE ret.nonce} :
              /\ ri \in 1 .. ParamsN - 1
              /\ ret.share.K = Times(ri, BasePoint)
              /\ ret.share.C =
                     Times((ri * ret.qd - ret.sk * ret.r) % ParamsN, BasePoint)

ShareIsCorrectReached ==
    /\ Called("ShareCal")
    /\ ret.err = Nil
    /\ ret.file = "proof"
    /\ ret.ri = ParamsN - 1
    /\ ret.sk > 1
    /\ ret.share.C \in Points \ {Infinity}

\* C20 (SpecCalls): when the random source delivers fewer bytes than asked
\* for, PointEncrypt, ShareCal and the four provers return a non-nil error;
\* the ciphertext or share returned has no coordinate set, the nonce of
\* ShareCal is nil and c, r1, r2 are nil, also when the first draw of a
\* prover succeeds and the second fails.
FailureReturnsNothing ==
    /\ (Called("PointEncrypt") /\ Len(ret.read) < ReadLen)
           => (ret.err # Nil /\ ret.ct = EmptyCipherText)
    /\ (Called("ShareCal") /\ Len(ret.read) < ReadLen)
           => (ret.err # Nil /\ ret.share = EmptyCipherText /\ ret.ri = Nil)
    /\ (pc = "call.done" /\ ret.fn \in Provers
           /\ (Len(ret.read1) < ReadLen \/ Len(ret.read2) < ReadLen))
           => (ret.err # Nil /\ ret.c = Nil /\ ret.r1 = Nil /\ ret.r2 = Nil)

FailureReturnsNothingReached ==
    /\ Called("ShareProofGenNoB")
    /\ Len(ret.read1) = ReadLen
    /\ Len(ret.read2) < ReadLen
    /\ ret.err = EntropyFailure
    /\ ret.draws.v1 \in 1 .. ParamsN - 1
    /\ ret.c = Nil

\* C21 (SpecFrame): after a call of CollPrivKey, CollPubKey, PointEncrypt,
\* PointDecrypt, ShareCal, ShareReplace, ShareProofGen(NoB) or
\* ShareProofVry(NoB), every cell the heap held before the call (the
\* integers and structs of the caller's keys, points, ciphertexts and slice
\* elements, the curve parameters and one) holds what it held before.
InputsUnchanged ==
    pc = "frame.done"
        => \A a \in 1 .. Len(ret.pre) : ret.post[a] = ret.pre[a]
\* C21 witness: ShareProofGen has run on an rB with a non-zero Y: 22 cells
\* were allocated and the Y of A2 holds p - rB.Y while rB.Y is in the heap.
InputsUnchangedReached ==
    /\ pc = "frame.done"
    /\ ret.fn = "ShareProofGen"
    /\ Len(ret.post) = Len(ret.pre) + 22
    /\ ret.pre[20] # 0
    /\ ret.post[Len(ret.pre) + 4] = ParamsP - ret.pre[20]

\* The coordinates of the two tuples have the same byte lengths, place by
\* place.
SameLengths ==
    \A k \in Places :
        /\ Len(Bytes(ret.one[k].X)) = Len(Bytes(ret.other[k].X))
        /\ Len(Bytes(ret.one[k].Y)) = Len(Bytes(ret.other[k].Y))

\* C22 (SpecEncode), as claimed: two tuples of nine points that differ are
\* written to the hash as byte strings that differ.
TranscriptInjective ==
    (pc = "encode.done" /\ ret.one # ret.other)
        => ret.oneBytes # ret.otherBytes

\* C22 (SpecEncode), amended: two tuples of nine points that differ, and
\* whose coordinates have the same byte lengths place by place, are written
\* to the hash as byte strings that differ.
TranscriptInjectiveOnSameLengths ==
    (pc = "encode.done" /\ ret.one # ret.other /\ SameLengths)
        => ret.oneBytes # ret.otherBytes

\* C22 witness: two tuples that differ in a coordinate of one byte each
\* were written, as two byte strings of the same length that differ.
TranscriptInjectiveReached ==
    /\ pc = "encode.done"
    /\ ret.one # ret.other
    /\ SameLengths
    /\ ret.one[6].Y = 1
    /\ ret.other[6].Y = 2
    /\ Len(ret.oneBytes) = Len(ret.otherBytes)
    /\ ret.oneBytes # ret.otherBytes
====
